---- MODULE Spec2Model ----
(***************************************************************************)
(* Model of the sqluct field mapper (mapper.go): reflection driven         *)
(* extraction of columns and values from tagged Go structs, and the        *)
(* Insert / Update / Select / WhereEq statement helpers built on it; of    *)
(* the Referencer (referencer.go), the registry of quoted references to    *)
(* row and field pointers; and of the transaction wrapper Storage.InTx     *)
(* (storage.go).                                                           *)
(***************************************************************************)
EXTENDS Integers, Sequences, FiniteSets, TLC

VARIABLES
    types,      \* Mapper.types: cache reflect.Type -> filtered field index
    Dialect,    \* Mapper.Dialect
    call,       \* the call being served: operation, arguments, options
    ret,        \* what that call returned (or that it panicked)
    IdentifierQuoter,   \* Referencer.IdentifierQuoter
    refs,               \* Referencer.refs: pointer -> quoted reference
    quotedCols,         \* Referencer.quotedCols: field pointer -> quoted column
    columnNames,        \* Referencer.columnNames: field pointer -> column name
    structRefs,         \* Referencer.structRefs: row pointer -> sorted references
    rcall,              \* the last call on the Referencer and its arguments
    rret,               \* what that call returned (or that it panicked)
    registered,         \* what the caller did: row pointer -> aliases it was added under
    db,         \* the calls Storage and its caller made on the database, in order
    ctx,        \* the transaction in the context of the caller of Storage (0: none)
    stack,      \* the InTx calls that are running, innermost last
    last,       \* the InTx call, if it was the operation that returned last
    OnError,    \* Storage.OnError is set
    observed,   \* the errors the OnError hook got from the operation that returned last
    Trace,      \* Storage.Trace is set
    ran,        \* the Exec, Query or Select, if it was the operation that returned last
    qcall,      \* the last call of a quoting function and its parts
    qret,       \* the text it returned
    script,     \* the text last given to SplitStatements
    statements, \* the statements it returned
    mu,         \* Mapper.mu of every Mapper: the goroutine that holds it (0: none)
    typesOf,    \* Mapper.types of every Mapper, for the one record type
    structMaps, \* the StructMap of the reflect mapper's cache, once it made one
    goroutines  \* the goroutines that call typeMap: where each is, what it holds

referencerVars ==
    <<IdentifierQuoter, refs, quotedCols, columnNames, structRefs, rcall, rret, registered>>

storageVars == <<db, ctx, stack, last, OnError, observed, Trace, ran>>

quoteVars == <<qcall, qret>>

splitVars == <<script, statements>>

typeMapVars == <<mu, typesOf, structMaps, goroutines>>

libraryVars == <<quoteVars, splitVars, typeMapVars>>

vars == <<types, Dialect, call, ret, referencerVars, storageVars, libraryVars>>

(***************************************************************************)
(* Bounds of the model.                                                    *)
(***************************************************************************)
MaxSliceLen == 2    \* longest slice of records passed to an operation

MaxParts == 2       \* most parts given to a quoting function

MaxPartLen == 2     \* most runes of a part

MaxScriptLen == 4   \* most runes of a script given to SplitStatements

MaxGoroutines == 2  \* most goroutines in a mapping call at a time

(***************************************************************************)
(* Go struct types used by the tests.  A field is described by its Go      *)
(* name, whether it has a struct tag at all (Tag = "db" for a `db:"..."`   *)
(* tag, "json" for a tag with a json key only, "" for no tag), the column  *)
(* name and omitempty flag of the db tag,                                  *)
(* whether it is an anonymous (embedded) member, its kind, and for struct  *)
(* kinds the struct type.  Field positions are 1-based here.               *)
(***************************************************************************)
Fld(name, tag, col, omit, anon, kind, type) ==
    [Name |-> name, Tag |-> tag, Col |-> col, OmitEmpty |-> omit,
     Anonymous |-> anon, Kind |-> kind, Type |-> type]

Sample ==
    << Fld("A", "db", "a", TRUE, FALSE, "int", ""),
       Fld("DeeplyEmbedded", "", "", FALSE, TRUE, "struct", "DeeplyEmbedded"),
       Fld("Meta", "db", "meta", FALSE, FALSE, "struct", "AnotherRow") >>

DeeplyEmbedded ==
    << Fld("SampleEmbedded", "", "", FALSE, TRUE, "struct", "SampleEmbedded"),
       Fld("E", "db", "e", TRUE, FALSE, "string", "") >>

SampleEmbedded ==
    << Fld("B", "db", "b", FALSE, FALSE, "float64", ""),
       Fld("C", "db", "c", FALSE, FALSE, "string", "") >>

AnotherRow ==
    << Fld("SampleEmbedded", "", "", FALSE, TRUE, "struct", "SampleEmbedded"),
       Fld("D", "db", "d", FALSE, FALSE, "string", "") >>

Product ==
    << Fld("ID", "db", "id", TRUE, FALSE, "int", ""),
       Fld("Name", "db", "name", TRUE, FALSE, "string", ""),
       Fld("Price", "db", "price", FALSE, FALSE, "int", "") >>

Condition ==
    << Fld("A", "db", "a", FALSE, FALSE, "int", ""),
       Fld("B", "db", "b", FALSE, FALSE, "slice", ""),
       Fld("C", "", "", FALSE, FALSE, "int", "") >>

User ==
    << Fld("ID", "db", "id", TRUE, FALSE, "int", ""),
       Fld("FirstName", "db", "first_name", TRUE, FALSE, "string", ""),
       Fld("LastName", "db", "last_name", TRUE, FALSE, "string", "") >>

nested ==
    << Fld("A", "json", "", FALSE, FALSE, "int", ""),
       Fld("B", "json", "", FALSE, FALSE, "bool", "") >>

StructFields(t) ==
    CASE t = "Sample" -> Sample
      [] t = "DeeplyEmbedded" -> DeeplyEmbedded
      [] t = "SampleEmbedded" -> SampleEmbedded
      [] t = "AnotherRow" -> AnotherRow
      [] t = "Product" -> Product
      [] t = "Condition" -> Condition
      [] t = "nested" -> nested
      [] t = "User" -> User

\* The record types handed to the mapper.
RecordTypes == {"Sample", "Product", "Condition", "nested"}

(***************************************************************************)
(* reflectx.Mapper.TypeMap as called by Mapper.typeMap: a breadth-first    *)
(* walk of the struct.  Every field of the struct at the head of the queue *)
(* is appended to the index; anonymous and named struct fields are queued  *)
(* to be walked after all fields already queued.  A FieldInfo keeps the    *)
(* field position path (Index), the dotted Path, the resolved Name and a   *)
(* reference to its Parent (the parent's Index, << >> for the root).       *)
(***************************************************************************)
parseName(f) == IF f.Tag = "db" THEN f.Col ELSE f.Name

\* The FieldInfo of the struct field f declared at position pos of tq's type.
FieldInfo(tq, pos, f) ==
    [Index |-> Append(tq.Index, pos),
     Path |-> IF tq.pp = "" THEN parseName(f) ELSE tq.pp \o "." \o parseName(f),
     Name |-> parseName(f),
     Embedded |-> f.Anonymous,
     Tag |-> f.Tag,
     OmitEmpty |-> (f.Tag = "db" /\ f.OmitEmpty),
     Kind |-> f.Kind,
     Type |-> f.Type,
     Parent |-> tq.Index]

FieldInfoOf(tq, pos) == FieldInfo(tq, pos, StructFields(tq.t)[pos])

QueueItemOf(tq, fi) ==
    [t |-> fi.Type,
     Index |-> fi.Index,
     pp |-> IF fi.Embedded /\ fi.Tag = "" THEN tq.pp ELSE fi.Path]

RECURSIVE getMapping(_, _)
getMapping(queue, m) ==
    IF queue = << >> THEN m
    ELSE LET tq == Head(queue)
             n == Len(StructFields(tq.t))
             infos == [pos \in 1..n |-> FieldInfoOf(tq, pos)]
             structs == SelectSeq(infos, LAMBDA fi : fi.Kind = "struct")
             more == [i \in 1..Len(structs) |-> QueueItemOf(tq, structs[i])]
         IN  getMapping(Tail(queue) \o more, m \o infos)

RootItem(t) == [t |-> t, Index |-> << >>, pp |-> ""]

\* A walk that lists the fields of an embedded struct where it is declared.
RECURSIVE walkInPlace(_)
walkInPlace(tq) ==
    LET n == Len(StructFields(tq.t))
        at(pos) == LET fi == FieldInfoOf(tq, pos)
                   IN  << fi >> \o (IF fi.Kind = "struct" THEN walkInPlace(QueueItemOf(tq, fi))
                                    ELSE << >>)
        RECURSIVE upTo(_)
        upTo(pos) == IF pos = 0 THEN << >> ELSE upTo(pos - 1) \o at(pos)
    IN  upTo(n)

TypeMapInPlace(t) == walkInPlace(RootItem(t))

TypeMap(t) == getMapping(<< RootItem(t) >>, << >>)

(***************************************************************************)
(* Mapper.typeMap: the cached index keeps a field unless one of its        *)
(* parents with a non-empty path is a named (not embedded) struct field.   *)
(***************************************************************************)
FieldAt(index, idx) == CHOOSE fi \in { index[i] : i \in 1..Len(index) } : fi.Index = idx

RECURSIVE hasNamedParent(_, _)
hasNamedParent(index, p) ==
    IF p = << >> THEN FALSE
    ELSE LET pf == FieldAt(index, p)
         IN  IF pf.Path = "" THEN FALSE
             ELSE IF ~pf.Embedded THEN TRUE
             ELSE hasNamedParent(index, pf.Parent)

filterIndexKeepAll(index) == index

filterIndex(index) ==
    SelectSeq(index, LAMBDA fi : ~hasNamedParent(index, fi.Parent))

\* The index Mapper.typeMap returns for t, and the cache after the call.
typeMap(t) == IF t \in DOMAIN types THEN types[t] ELSE filterIndex(TypeMap(t))

typesAfter(t) == IF t \in DOMAIN types THEN types ELSE (t :> filterIndex(TypeMap(t))) @@ types

(***************************************************************************)
(* Values.  A record value maps the position path of every leaf (non       *)
(* struct) field of its type to the field's value; 0 is the zero value of  *)
(* a scalar, and a slice field is represented by its length.  An argument  *)
(* of an operation (a Go interface{}) is an untyped nil, a nil pointer, a  *)
(* pointer to a record, a record, a slice of records or a non-struct.      *)
(***************************************************************************)
LeafIndexes(m) == { m[i].Index : i \in { j \in 1..Len(m) : m[j].Kind # "struct" } }

LeafPaths(t) == LeafIndexes(TypeMap(t))

FieldVals == {0, 1}

Records(t) == [LeafPaths(t) -> FieldVals]

\* Records handed to the mapper by value: in a Sample the fields c, meta.b and
\* meta.c keep their zero value.
StructRecords(t) ==
    IF t = "Sample"
    THEN { r \in Records(t) : r[<<2, 1, 2>>] = 0 /\ r[<<3, 1, 1>>] = 0 /\ r[<<3, 1, 2>>] = 0 }
    ELSE Records(t)

\* Elements of the slices handed to the mapper.
SliceRecords(t) ==
    CASE t = "Sample" ->
            { r \in Records(t) :
                \A p \in LeafPaths(t) : p \notin { <<1>>, <<2, 2>> } => r[p] = (IF p = <<2, 1, 1>> THEN 1 ELSE 0) }
      [] t = "Product" -> { r \in Records(t) : r[<<1>>] = 1 /\ r[<<3>>] = 0 }
      [] t \in { "Condition", "nested" } -> { }

SeqsUpTo(S, n) == UNION { [1..k -> S] : k \in 0..n }

Val(form, kind, type, items) ==
    [form |-> form, kind |-> kind, type |-> type, items |-> items]

NilInterface == Val("nil", "", "", << >>)
InvalidValue == Val("invalid", "", "", << >>)

StructVals == UNION { { Val("val", "struct", t, <<r>>) : r \in StructRecords(t) } : t \in RecordTypes }
PtrVals == { Val("ptr", "struct", "Product", <<r>>) : r \in SliceRecords("Product") }
NilPtrVals == { Val("nilptr", "struct", t, << >>) : t \in RecordTypes }
SliceVals ==
    UNION { { Val("val", "slice", t, s) : s \in SeqsUpTo(SliceRecords(t), MaxSliceLen) } :
            t \in { "Sample", "Product" } }
IntVals == { Val("val", "int", "", << >>) }

Vals == { NilInterface } \cup StructVals \cup PtrVals \cup NilPtrVals \cup SliceVals \cup IntVals

\* reflect.ValueOf, reflect.Indirect and Value.Index
ValueOf(val) == IF val.form = "nil" THEN InvalidValue ELSE val

Indirect(v) ==
    CASE v.form = "ptr" -> [v EXCEPT !.form = "val"]
      [] v.form = "nilptr" -> InvalidValue
      [] OTHER -> v

ItemAt(v, i) == Val("val", "struct", v.type, << v.items[i] >>)

(***************************************************************************)
(* Options and the option functions.                                       *)
(***************************************************************************)
\* A func(col string) string held by Options.PrepareColumn: the function (fn)
\* and the variables it closes over.  "nil" is the nil func, "QuoteANSI" the
\* quoter of that name, "ColumnsOf" the closure made by Referencer.ColumnsOf
\* over the table reference and the Referencer's IdentifierQuoter.
ColumnFunc(fn, table, quoter) == [fn |-> fn, table |-> table, quoter |-> quoter]

NoOptions ==
    [SkipZeroValues |-> FALSE, IgnoreOmitEmpty |-> FALSE, Columns |-> {},
     PrepareColumn |-> ColumnFunc("nil", "", ""), InsertIgnore |-> FALSE]

ColumnLists == { {}, {"a", "b", "id", "name"} }

QuoteANSI(col) == "\"" \o col \o "\""

ColumnTransforms == { ColumnFunc("nil", "", ""), ColumnFunc("QuoteANSI", "", "") }

OptionSets ==
    [SkipZeroValues : BOOLEAN, IgnoreOmitEmpty : BOOLEAN, Columns : ColumnLists,
     PrepareColumn : ColumnTransforms, InsertIgnore : {FALSE}]

InsertOptionSets ==
    [SkipZeroValues : BOOLEAN, IgnoreOmitEmpty : BOOLEAN, Columns : ColumnLists,
     PrepareColumn : ColumnTransforms, InsertIgnore : BOOLEAN]

\* o.PrepareColumn(col), a nil PrepareColumn leaving the name as it is.
PrepareColumn(o, col) ==
    CASE o.PrepareColumn.fn = "nil" -> col
      [] o.PrepareColumn.fn = "QuoteANSI" -> QuoteANSI(col)
      [] o.PrepareColumn.fn = "ColumnsOf" ->
            o.PrepareColumn.table \o "." \o
                (IF o.PrepareColumn.quoter = "nil" THEN col ELSE QuoteANSI(col))

(***************************************************************************)
(* Mapper.colType, Mapper.skip, isZero, Mapper.columnsValues               *)
(***************************************************************************)
Panic == [panic |-> TRUE, columns |-> << >>, values |-> << >>]

\* colType: panics on an invalid value (Value.Type) and on a non-struct.
colTypePanics(v) ==
    LET w == Indirect(v)
    IN  w.form = "invalid" \/ w.kind \notin {"struct", "slice"}

colTypeSkipValues(v) == Indirect(v).kind = "slice"

skip(fi, columns) ==
    \/ fi.Embedded
    \/ fi.Tag = ""
    \/ (columns # {} /\ fi.Name \notin columns)

\* reflectx.FieldByIndexesReadOnly followed by Value.Interface: the value of
\* the field at position path idx, keyed by the leaf paths below it.
FieldByIndexesReadOnly(rec, idx) ==
    LET below == { l \in DOMAIN rec : Len(l) >= Len(idx) /\ SubSeq(l, 1, Len(idx)) = idx }
    IN  [ q \in { SubSeq(l, Len(idx) + 1, Len(l)) : l \in below } |-> rec[idx \o q] ]

isZero(fi, val) ==
    IF fi.Kind \in {"slice", "map"}
    THEN val[<< >>] = 0
    ELSE \A q \in DOMAIN val : val[q] = 0

omittedAnd(fi, val, o) ==
    LET omitEmpty == fi.OmitEmpty /\ ~o.IgnoreOmitEmpty
    IN  (o.SkipZeroValues /\ omitEmpty) /\ isZero(fi, val)

omittedNoIgnore(fi, val, o) ==
    (o.SkipZeroValues \/ fi.OmitEmpty) /\ isZero(fi, val)

omitted(fi, val, o) ==
    LET omitEmpty == fi.OmitEmpty /\ ~o.IgnoreOmitEmpty
    IN  (o.SkipZeroValues \/ omitEmpty) /\ isZero(fi, val)

RECURSIVE columnsValuesLoopUnpaired(_, _, _, _)
columnsValuesLoopUnpaired(index, v, skipValues, o) ==
    IF index = << >> THEN [panic |-> FALSE, columns |-> << >>, values |-> << >>]
    ELSE LET fi == Head(index)
             rest == columnsValuesLoopUnpaired(Tail(index), v, skipValues, o)
             val == FieldByIndexesReadOnly(v.items[1], fi.Index)
         IN  IF skip(fi, o.Columns) THEN rest
             ELSE IF skipValues
                  THEN [rest EXCEPT !.columns = << PrepareColumn(o, fi.Name) >> \o @]
                  ELSE IF omitted(fi, val, o)
                       THEN [rest EXCEPT !.columns = << PrepareColumn(o, fi.Name) >> \o @]
                       ELSE [rest EXCEPT !.columns = << PrepareColumn(o, fi.Name) >> \o @,
                                         !.values = << val >> \o @]

RECURSIVE columnsValuesLoop(_, _, _, _)
columnsValuesLoop(index, v, skipValues, o) ==
    IF index = << >> THEN [panic |-> FALSE, columns |-> << >>, values |-> << >>]
    ELSE LET fi == Head(index)
             rest == columnsValuesLoop(Tail(index), v, skipValues, o)
             val == FieldByIndexesReadOnly(v.items[1], fi.Index)
         IN  IF skip(fi, o.Columns) THEN rest
             ELSE IF skipValues
                  THEN [rest EXCEPT !.columns = << PrepareColumn(o, fi.Name) >> \o @]
                  ELSE IF omitted(fi, val, o) THEN rest
                       ELSE [rest EXCEPT !.columns = << PrepareColumn(o, fi.Name) >> \o @,
                                         !.values = << val >> \o @]

columnsValuesUnpaired(v, o) ==
    IF colTypePanics(v) THEN Panic
    ELSE LET w == Indirect(v)
         IN  columnsValuesLoopUnpaired(typeMap(w.type), w, colTypeSkipValues(v), o)

\* columnsValues(v, o), given the index typeMap returned for v's type.
columnsValues(v, o) ==
    IF colTypePanics(v) THEN Panic
    ELSE LET w == Indirect(v)
         IN  columnsValuesLoop(typeMap(w.type), w, colTypeSkipValues(v), o)

\* The type colType hands to typeMap, if it gets that far.
cachedBy(v) == IF colTypePanics(v) THEN {} ELSE { Indirect(v).type }

(***************************************************************************)
(* squirrel builders: the parts of InsertBuilder, UpdateBuilder and        *)
(* SelectBuilder the mapper writes.  Columns extends the column list,      *)
(* Values appends one row, Set appends one assignment.                     *)
(***************************************************************************)
Tables == { "sample" }

InsertBuilder(into) ==
    [into |-> into, columns |-> << >>, values |-> << >>, options |-> << >>, suffixes |-> << >>]
UpdateBuilder(table) == [table |-> table, setClauses |-> << >>]
SelectBuilder(from) == [from |-> from, columns |-> << >>]

Columns(q, cols) == [q EXCEPT !.columns = @ \o cols]
Values(q, vals) == [q EXCEPT !.values = Append(@, vals)]
Set(q, col, val) == [q EXCEPT !.setClauses = Append(@, [column |-> col, value |-> val])]

Range(s) == { s[i] : i \in 1..Len(s) }

\* What an operation hands back: a builder, a predicate map or the two lists.
Result(q) ==
    [panic |-> FALSE, q |-> q, nil |-> FALSE, eq |-> << >>, columns |-> << >>, values |-> << >>]
Panicked == [Result([none |-> TRUE]) EXCEPT !.panic = TRUE]

(***************************************************************************)
(* Mapper.heterogeneousInsert                                              *)
(***************************************************************************)
RECURSIVE heterogeneousInsertLoop(_, _, _, _)
heterogeneousInsertLoop(q, v, o, i) ==
    IF i > Len(v.items) THEN q
    ELSE CHOOSE r \in { heterogeneousInsertLoop(next, v, o, i + 1) :
                          next \in { Values(IF i = 1 THEN Columns(q, cv.columns) ELSE q, cv.values) :
                                     cv \in { columnsValues(ItemAt(v, i), o) } } } : TRUE

heterogeneousInsert(q, v, hCols, o) ==
    heterogeneousInsertLoop(q, v,
        [o EXCEPT !.SkipZeroValues = FALSE, !.IgnoreOmitEmpty = TRUE, !.Columns = hCols], 1)

(***************************************************************************)
(* Mapper.sliceInsert                                                      *)
(***************************************************************************)
\* One pass of the loop over the slice: st holds hCols, heterogeneous and the
\* builder qq as they stand before item i, cv is what columnsValues gave for it.
sliceInsertStep(st, cv, i) ==
    LET cols == Range(cv.columns)
        het == st.heterogeneous \/ (i > 1 /\ \E c \in cols : c \notin st.hCols)
        qq1 == IF i = 1 THEN Columns(st.qq, cv.columns) ELSE st.qq
        qq2 == IF ~het THEN Values(qq1, cv.values) ELSE qq1
    IN  [hCols |-> st.hCols \cup cols, heterogeneous |-> het, qq |-> qq2]

RECURSIVE sliceInsertLoop(_, _, _, _)
sliceInsertLoop(st, v, o, i) ==
    IF i > Len(v.items) THEN st
    ELSE CHOOSE r \in { sliceInsertLoop(next, v, o, i + 1) :
                          next \in { sliceInsertStep(st, cv, i) :
                                     cv \in { columnsValues(ItemAt(v, i), o) } } } : TRUE

sliceInsert(q, v, o) ==
    CHOOSE r \in { IF st.heterogeneous THEN heterogeneousInsert(q, v, st.hCols, o) ELSE st.qq :
                    st \in { sliceInsertLoop([hCols |-> {}, heterogeneous |-> FALSE, qq |-> q],
                                             v, o, 1) } } : TRUE

(***************************************************************************)
(* Mapper.Insert                                                           *)
(***************************************************************************)
DialectUnknown == ""
DialectMySQL == "mysql"
DialectPostgres == "postgres"
DialectSQLite3 == "sqlite3"
DialectOther == "oracle"    \* a dialect the switch of Insert does not know

Dialects == { DialectUnknown, DialectMySQL, DialectPostgres, DialectSQLite3, DialectOther }

insertIgnore(q) ==
    CASE Dialect = DialectMySQL -> Result([q EXCEPT !.options = Append(@, "IGNORE")])
      [] Dialect = DialectSQLite3 -> Result([q EXCEPT !.options = Append(@, "OR IGNORE")])
      [] Dialect = DialectPostgres ->
            Result([q EXCEPT !.suffixes = Append(@, "ON CONFLICT DO NOTHING")])
      [] OTHER -> Panicked

Insert(q, val, o) ==
    IF val.form = "nil" THEN Result(q)
    ELSE LET v == Indirect(ValueOf(val))
         IN  IF v.kind = "slice" THEN Result(sliceInsert(q, v, o))
             ELSE LET cv == columnsValues(v, o)
                      q1 == Values(Columns(q, cv.columns), cv.values)
                  IN  IF cv.panic THEN Panicked
                      ELSE IF o.InsertIgnore THEN insertIgnore(q1)
                      ELSE Result(q1)

\* The types Insert asks typeMap for.
InsertCaches(val) ==
    IF val.form = "nil" THEN {}
    ELSE LET v == Indirect(ValueOf(val))
         IN  IF v.kind = "slice" THEN (IF v.items = << >> THEN {} ELSE { v.type })
             ELSE cachedBy(v)

(***************************************************************************)
(* Mapper.Update                                                           *)
(***************************************************************************)
RECURSIVE setAll(_, _, _, _)
setAll(q, cols, vals, i) ==
    IF i > Len(cols) THEN q
    ELSE setAll(Set(q, cols[i], vals[i]), cols, vals, i + 1)

Update(q, val, o) ==
    IF val.form = "nil" THEN Result(q)
    ELSE LET cv == columnsValues(ValueOf(val), o)
         IN  IF cv.panic \/ Len(cv.values) < Len(cv.columns) THEN Panicked
             ELSE Result(setAll(q, cv.columns, cv.values, 1))

(***************************************************************************)
(* Mapper.Select                                                           *)
(***************************************************************************)
Select(q, columns, o) ==
    IF columns.form = "nil" THEN Result(q)
    ELSE LET cv == columnsValues(ValueOf(columns), [o EXCEPT !.IgnoreOmitEmpty = TRUE])
         IN  IF cv.panic THEN Panicked ELSE Result(Columns(q, cv.columns))

(***************************************************************************)
(* Mapper.WhereEq: a map column -> value, nil when it has no entry         *)
(***************************************************************************)
Eq(columns, values) ==
    [ c \in Range(columns) |->
        values[CHOOSE i \in 1..Len(columns) :
                 columns[i] = c /\ \A j \in 1..Len(columns) : columns[j] = c => j <= i] ]

WhereEqEmptyMap(conditions, o) ==
    LET cv == columnsValues(ValueOf(conditions), o)
    IN  IF cv.panic \/ Len(cv.values) < Len(cv.columns) THEN Panicked
        ELSE [Result([none |-> TRUE]) EXCEPT !.eq = Eq(cv.columns, cv.values)]

WhereEq(conditions, o) ==
    LET cv == columnsValues(ValueOf(conditions), o)
    IN  IF cv.panic \/ Len(cv.values) < Len(cv.columns) THEN Panicked
        ELSE IF Range(cv.columns) = {} THEN [Result([none |-> TRUE]) EXCEPT !.nil = TRUE]
        ELSE [Result([none |-> TRUE]) EXCEPT !.eq = Eq(cv.columns, cv.values)]

(***************************************************************************)
(* Mapper.ColumnsValues                                                    *)
(***************************************************************************)
ColumnsValues(v, o) ==
    LET cv == columnsValues(v, o)
    IN  IF cv.panic THEN Panicked
        ELSE [Result([none |-> TRUE]) EXCEPT !.columns = cv.columns, !.values = cv.values]

(***************************************************************************)
(* Referencer.  A Go value handed to it as interface{} is a pointer to a   *)
(* row object or to one of its fields (idx is << >> for the row, the       *)
(* field's Index otherwise), the same wrapped by NoTable, a Quoted string, *)
(* a plain string, an untyped nil, a row passed by value, or a literal.    *)
(* Map keys compare as Go interface values do: by dynamic type and value.  *)
(***************************************************************************)
Arg(kind, obj, idx, s) == [kind |-> kind, obj |-> obj, idx |-> idx, s |-> s]

RowObjects == { "manager", "employee" }    \* manager := &User{}; employee := &User{}
TypeOf(obj) == "User"

Aliases == { "", "manager", "employee" }

Ptr(obj, idx) == Arg("ptr", obj, idx, "")
NilArg == Arg("nil", "", << >>, "")
QuotedArg(s) == Arg("Quoted", "", << >>, s)
StringArg(s) == Arg("string", "", << >>, s)
Literal(s) == Arg("literal", "", << >>, s)
RowValue(obj) == Arg("struct", obj, << >>, "")

\* NoTable(ptr): QuotedNoTable{ptr: ptr}
NoTable(ptr) == [ptr EXCEPT !.kind = "NoTable:" \o ptr.kind]
IsNoTable(a) == a.kind \in { "NoTable:ptr", "NoTable:literal" }
Unwrap(a) == [a EXCEPT !.kind = IF a.kind = "NoTable:ptr" THEN "ptr" ELSE "literal"]

RECURSIVE Join(_, _)
Join(items, sep) ==
    IF items = << >> THEN ""
    ELSE IF Len(items) = 1 THEN items[1]
    ELSE items[1] \o sep \o Join(Tail(items), sep)

QuoteNoop(tableAndColumn) == Join(tableAndColumn, ".")

QuoteANSIAll(tableAndColumn) ==
    Join([i \in 1..Len(tableAndColumn) |-> QuoteANSI(tableAndColumn[i])], ".")

IdentifierQuoters == { "nil", "QuoteANSI" }

\* Referencer.Q
Q(tableAndColumn) ==
    IF IdentifierQuoter = "nil" THEN QuoteNoop(tableAndColumn)
    ELSE QuoteANSIAll(tableAndColumn)

\* Mapper.FindColumnNames given the index typeMap returned: the column name of
\* every field of the index that is not embedded, keyed by the field's address.
FieldNamesByPosition(obj, index) ==
    [ p \in { Ptr("manager", index[i].Index) : i \in { k \in 1..Len(index) : ~index[k].Embedded } } |->
        FieldAt(index, p.idx).Name ]

FieldNames(obj, index) ==
    [ p \in { Ptr(obj, index[i].Index) : i \in { k \in 1..Len(index) : ~index[k].Embedded } } |->
        FieldAt(index, p.idx).Name ]

FindColumnNames(structPtr) ==
    IF structPtr.kind # "ptr" THEN [err |-> TRUE, names |-> << >>]
    ELSE [err |-> FALSE, names |-> FieldNames(structPtr.obj, typeMap(TypeOf(structPtr.obj)))]

\* sort.Strings over the references of one row: they share the table part, so
\* they come in the order of their column names.
Alphabetical == << "first_name", "id", "last_name" >>

FieldRefQualified(alias, fieldName) == Q(<< alias, fieldName >>)

FieldRef(alias, fieldName) ==
    IF alias = "" THEN Q(<< fieldName >>) ELSE Q(<< alias, fieldName >>)

SortedRefs(alias, f) ==
    LET names == SelectSeq(Alphabetical, LAMBDA n : \E p \in DOMAIN f : f[p] = n)
    IN  [i \in 1..Len(names) |-> FieldRef(alias, names[i])]

AddTableAliasRefsPruned(rowStructPtr, alias, f) ==
    [ p \in DOMAIN f |-> FieldRef(alias, f[p]) ] @@
    (IF alias # "" THEN (rowStructPtr :> Q(<< alias >>)) @@ refs
     ELSE [ p \in DOMAIN refs \ { rowStructPtr } |-> refs[p] ])

\* The four maps after AddTableAlias(rowStructPtr, alias) found the fields f.
AddTableAliasRefs(rowStructPtr, alias, f) ==
    [ p \in DOMAIN f |-> FieldRef(alias, f[p]) ] @@
    (IF alias # "" THEN (rowStructPtr :> Q(<< alias >>)) @@ refs ELSE refs)

AddTableAliasQuotedCols(f) == [ p \in DOMAIN f |-> Q(<< f[p] >>) ] @@ quotedCols

AddTableAliasColumnNames(f) == f @@ columnNames

AddTableAliasStructRefs(rowStructPtr, alias, f) ==
    (rowStructPtr :> SortedRefs(alias, f)) @@ structRefs

refQualified(ptr) ==
    IF ptr.kind = "Quoted" THEN [err |-> FALSE, s |-> ptr.s]
    ELSE LET p == IF IsNoTable(ptr) THEN Unwrap(ptr) ELSE ptr
         IN  IF p \in DOMAIN refs
             THEN [err |-> FALSE, s |-> refs[p]]
             ELSE [err |-> TRUE, s |-> ""]

\* Referencer.ref
ref(ptr) ==
    IF ptr.kind = "Quoted" THEN [err |-> FALSE, s |-> ptr.s]
    ELSE IF IsNoTable(ptr)
         THEN IF Unwrap(ptr) \in DOMAIN quotedCols
              THEN [err |-> FALSE, s |-> quotedCols[Unwrap(ptr)]]
              ELSE [err |-> TRUE, s |-> ""]
         ELSE IF ptr \in DOMAIN refs
              THEN [err |-> FALSE, s |-> refs[ptr]]
              ELSE [err |-> TRUE, s |-> ""]

\* What a call on the Referencer hands back.
RRet(panic, s, list, o) == [panic |-> panic, s |-> s, list |-> list, o |-> o]
RPanic == RRet(TRUE, "", << >>, NoOptions)
RString(s) == RRet(FALSE, s, << >>, NoOptions)
RList(list) == RRet(FALSE, "", list, NoOptions)

Ref(ptr) == IF ref(ptr).err THEN RPanic ELSE RString(ref(ptr).s)

Col(ptr) == IF ptr \in DOMAIN columnNames THEN RString(columnNames[ptr]) ELSE RPanic

Cols(ptr) == IF ptr \in DOMAIN structRefs THEN RList(structRefs[ptr]) ELSE RPanic

\* Referencer.Fmt: the arguments handed to fmt.Sprintf with the format.
Fmt(format, ptrs) ==
    IF \E i \in 1..Len(ptrs) : ref(ptrs[i]).err THEN RPanic
    ELSE RRet(FALSE, format, [i \in 1..Len(ptrs) |-> ref(ptrs[i]).s], NoOptions)

\* Referencer.ColumnsOf: the option it returns, applied to the zero Options.
ColumnsOfTable(rowStructPtr) ==
    CASE rowStructPtr.kind = "string" -> [found |-> TRUE, table |-> Q(<< rowStructPtr.s >>)]
      [] rowStructPtr.kind = "Quoted" -> [found |-> TRUE, table |-> rowStructPtr.s]
      [] OTHER -> IF rowStructPtr \in DOMAIN refs
                  THEN [found |-> TRUE, table |-> refs[rowStructPtr]]
                  ELSE [found |-> FALSE, table |-> ""]

ColumnsOf(rowStructPtr) ==
    IF ~ColumnsOfTable(rowStructPtr).found THEN RPanic
    ELSE RRet(FALSE, "", << >>,
              [NoOptions EXCEPT !.PrepareColumn =
                  ColumnFunc("ColumnsOf", ColumnsOfTable(rowStructPtr).table, IdentifierQuoter)])

RCall(op, arg, alias, args) == [op |-> op, arg |-> arg, alias |-> alias, args |-> args]
NoRCall == RCall("none", NilArg, "", << >>)

(***************************************************************************)
(* Storage.InTx.  An error is the chain of its messages, outermost first,  *)
(* with the key-value fields of the outermost wrapper; the nil error has   *)
(* an empty chain.  A transaction is a positive number, 0 is no            *)
(* transaction.                                                            *)
(***************************************************************************)
NilErr == [chain |-> << >>, fields |-> << >>]
NewError(msg) == [chain |-> << msg >>, fields |-> << >>]

\* ctxd.WrapError(ctx, err, message, keysAndValues...)
WrapError(err, message, keysAndValues) ==
    [chain |-> << message >> \o err.chain, fields |-> keysAndValues]

\* err.Error()
ErrorString(err) == Join(err.chain, ": ")

\* errors.Is(err, target) for a target that wraps nothing
Is(err, target) == \E i \in 1..Len(err.chain) : err.chain[i] = target.chain[1]

ErrNoRows == NewError("sql: no rows in result set")

\* TxFromContext(TxToContext(ctx, tx)) = tx; a context without the key gives nil.
NoTx == 0
TxToContext(c, tx) == tx
TxFromContext(c) == c

errorNoSentinel(seen, err) ==
    IF err # NilErr /\ OnError THEN Append(seen, err) ELSE seen

\* Storage.error: what the OnError hook has seen after err went through it.
error(seen, err) ==
    IF err # NilErr /\ ~Is(err, ErrNoRows) /\ OnError THEN Append(seen, err) ELSE seen

\* One call on the database: BeginTxx, tx.Commit or tx.Rollback, and whether
\* it succeeded.
DbCall(op, tx, ok) == [op |-> op, tx |-> tx, ok |-> ok]

DbError(op) == NewError(op \o " error")

submitTxNoDetail(c, err, ok) ==
    IF err # NilErr /\ ~ok
    THEN [err |-> WrapError(DbError("rollback"), "failed to rollback", << >>),
          db |-> << DbCall("rollback", TxFromContext(c), FALSE) >>,
          reported |-> << WrapError(DbError("rollback"), "failed to rollback", << >>) >>]
    ELSE [err |-> err,
          db |-> << DbCall(IF err # NilErr THEN "rollback" ELSE "commit", TxFromContext(c), ok) >>,
          reported |-> << >>]

submitTxCommit(c, err, ok) ==
    [err |-> err, db |-> << DbCall("commit", TxFromContext(c), ok) >>, reported |-> << >>]

\* Storage.submitTx(ctx, err): the error it returns, what it asked of the
\* database, and what went through Storage.error.
submitTx(c, err, ok) ==
    IF TxFromContext(c) = NoTx
    THEN [err |-> NewError("no running transaction"), db |-> << >>,
          reported |-> << NewError("no running transaction") >>]
    ELSE IF err # NilErr
         THEN IF ~ok
              THEN [err |-> WrapError(DbError("rollback"), "failed to rollback", << "error", err >>),
                    db |-> << DbCall("rollback", TxFromContext(c), FALSE) >>,
                    reported |->
                        << WrapError(DbError("rollback"), "failed to rollback", << "error", err >>) >>]
              ELSE [err |-> err, db |-> << DbCall("rollback", TxFromContext(c), TRUE) >>,
                    reported |-> << >>]
         ELSE IF ~ok
              THEN [err |-> WrapError(DbError("commit"), "failed to commit", << >>),
                    db |-> << DbCall("commit", TxFromContext(c), FALSE) >>,
                    reported |-> << WrapError(DbError("commit"), "failed to commit", << >>) >>]
              ELSE [err |-> NilErr, db |-> << DbCall("commit", TxFromContext(c), TRUE) >>,
                    reported |-> << >>]

\* A running InTx: the transaction of the context it was called with, the
\* transaction of the context it gave to fn, and whether a call made by fn
\* has panicked.
Frame(ctxTx, tx) == [ctxTx |-> ctxTx, tx |-> tx, panicking |-> FALSE]

\* A finished InTx: its frame, how often it called BeginTxx, fn, Commit and
\* Rollback, how fn ended ("none" when it was not called), and the result.
Finished(frame, begins, fn, fnErr, asked, err) ==
    [ctxTx |-> frame.ctxTx, tx |-> frame.tx, begins |-> begins,
     calls |-> IF fn = "none" THEN 0 ELSE 1, fn |-> fn, fnErr |-> fnErr,
     commits |-> Len(SelectSeq(asked, LAMBDA d : d.op = "commit")),
     rollbacks |-> Len(SelectSeq(asked, LAMBDA d : d.op = "rollback")),
     finalized |-> \E i \in 1..Len(asked) : asked[i].ok,
     err |-> err, panic |-> fn = "panic"]

NoInTx == Finished(Frame(NoTx, NoTx), 0, "none", NilErr, << >>, NilErr)

(***************************************************************************)
(* Storage.Exec, Query and Select.  A query builder is what its ToSql      *)
(* returns; an operation is recorded by the calls it made, in order, on    *)
(* the Trace hook, on the executor and on the completion callback the      *)
(* hook returned.                                                          *)
(***************************************************************************)
ToSQL(query, args, err) == [query |-> query, args |-> args, err |-> err]

Event(ev, on, query, args, err) ==
    [ev |-> ev, on |-> on, query |-> query, args |-> args, err |-> err]

\* s.Trace(ctx, query, args) and the def(err) it returns, when the hook is set
Traced(query, args) ==
    IF Trace THEN << Event("Trace", "", query, args, NilErr) >> ELSE << >>

Deferred(err) ==
    IF Trace THEN << Event("def", "", "", << >>, err) >> ELSE << >>

\* tx when the context carries a transaction, s.db otherwise
Executor(c) == IF TxFromContext(c) # NoTx THEN "tx" ELSE "db"

Ran(op, qb, events, reported, err) ==
    [op |-> op, qb |-> qb, built |-> qb.err = NilErr, events |-> events,
     reported |-> reported, err |-> err]

NoStatement == Ran("none", ToSQL("", << >>, NilErr), << >>, << >>, NilErr)

\* A Storage that traces after running the statement, also when building it
\* failed, and completes the trace without the error.
StatementUntraced(op, method, c, qb, err) ==
    IF qb.err # NilErr
    THEN Ran(op, qb, Traced(qb.query, qb.args) \o Deferred(NilErr),
             << WrapError(qb.err, "failed to build query", << >>) >>,
             WrapError(qb.err, "failed to build query", << >>))
    ELSE Ran(op, qb,
             << Event(method, Executor(c), qb.query, qb.args, err) >>
                 \o Traced(qb.query, qb.args) \o Deferred(NilErr),
             IF err # NilErr THEN << err >> ELSE << >>,
             err)

\* The statement part shared by the three: build, trace, run method on the
\* executor, hand the error to Storage.error, call the deferred def(err).
Statement(op, method, c, qb, err) ==
    IF qb.err # NilErr
    THEN Ran(op, qb, << >>, << WrapError(qb.err, "failed to build query", << >>) >>,
             WrapError(qb.err, "failed to build query", << >>))
    ELSE Ran(op, qb,
             Traced(qb.query, qb.args)
                 \o << Event(method, Executor(c), qb.query, qb.args, err) >>
                 \o Deferred(err),
             IF err # NilErr THEN << err >> ELSE << >>,
             err)

\* Storage.Exec
Exec(c, qb, err) == Statement("Exec", "ExecContext", c, qb, err)

\* Storage.Query
Query(c, qb, err) == Statement("Query", "QueryxContext", c, qb, err)

\* Storage.Select: sqlx.SelectContext for a slice, sqlx.GetContext otherwise
StorageSelect(c, qb, dest, err) ==
    Statement("Select", IF dest = "slice" THEN "SelectContext" ELSE "GetContext", c, qb, err)

(***************************************************************************)
(* The state machine: a caller invokes one operation of the Mapper at a    *)
(* time and takes its result before the next call.                         *)
(***************************************************************************)
Call(op, q, val, o) == [op |-> op, q |-> q, val |-> val, o |-> o]
NoCall == Call("none", [none |-> TRUE], NilInterface, NoOptions)

cache(ts) == IF ts = {} THEN types ELSE typesAfter(CHOOSE t \in ts : TRUE)

(***************************************************************************)
(* Identifier quoting on texts.  A text is the sequence of its runes (code *)
(* points), so that the quoting functions are modelled rune by rune the    *)
(* way the code walks a string.                                            *)
(***************************************************************************)
Dot == 46           \* '.'

DoubleQuote == 34   \* '"'

Backtick == 96      \* '`'

\* The runes parts are made of: '0', 'a', '_', '.', '`', '"', U+00E9 and
\* U+1F600 (one rune of every class the quoting functions tell apart).
Runes == { 48, 97, 95, Dot, Backtick, DoubleQuote, 233, 128512 }

RECURSIVE TextsUpTo(_)
TextsUpTo(n) ==
    IF n = 0 THEN { << >> }
    ELSE TextsUpTo(n - 1) \cup
         { Append(t, r) : t \in { u \in TextsUpTo(n - 1) : Len(u) = n - 1 }, r \in Runes }

Parts == TextsUpTo(MaxPartLen)

\* The argument lists tableAndColumn ...string
PartLists == UNION { [1..n -> Parts] : n \in 0..MaxParts }

\* strings.ReplaceAll(s, old, new) for a one-rune old
RECURSIVE ReplaceAll(_, _, _)
ReplaceAll(s, old, new) ==
    IF s = << >> THEN << >>
    ELSE (IF Head(s) = old THEN new ELSE << Head(s) >>) \o ReplaceAll(Tail(s), old, new)

\* strings.Builder: the texts written, one after the other
RECURSIVE Written(_)
Written(texts) == IF texts = << >> THEN << >> ELSE Head(texts) \o Written(Tail(texts))

\* One turn of the loop of QuoteANSI / QuoteBackticks for item i (from 1).
QuoteItem(i, item, quote) ==
    (IF i # 1 THEN << Dot >> ELSE << >>)
        \o << quote >> \o ReplaceAll(item, quote, << quote, quote >>) \o << quote >>

\* A quoter that does not escape the quote character inside an item.
QuoteANSIPartsUnescaped(tableAndColumn) ==
    Written([i \in 1..Len(tableAndColumn) |->
                (IF i # 1 THEN << Dot >> ELSE << >>)
                    \o << DoubleQuote >> \o tableAndColumn[i] \o << DoubleQuote >>])

\* QuoteANSI
QuoteANSIParts(tableAndColumn) ==
    Written([i \in 1..Len(tableAndColumn) |-> QuoteItem(i, tableAndColumn[i], DoubleQuote)])

\* QuoteBackticks
QuoteBackticksParts(tableAndColumn) ==
    Written([i \in 1..Len(tableAndColumn) |-> QuoteItem(i, tableAndColumn[i], Backtick)])

\* The rune loop of QuoteRequiredBackticks over what is left of an item.
RECURSIVE scan(_, _, _)
scan(item, needsQuote, onlyDigits) ==
    IF item = << >> THEN [needsQuote |-> needsQuote, onlyDigits |-> onlyDigits]
    ELSE LET r == Head(item) IN
         IF r >= 48 /\ r <= 57                                  \* '0'..'9'
         THEN scan(Tail(item), needsQuote, onlyDigits)
         ELSE IF \/ (r >= 97 /\ r <= 122) \/ (r >= 65 /\ r <= 90)   \* 'a'..'z', 'A'..'Z'
                 \/ r = 36 \/ r = 95                                \* '$', '_'
              THEN scan(Tail(item), needsQuote, FALSE)
              ELSE IF r >= 128 /\ r <= 65535                        \* 0x0080..0xFFFF
                   THEN scan(Tail(item), needsQuote, FALSE)
                   ELSE scan(Tail(item), TRUE, FALSE)

\* A conditional quoter without the onlyDigits test.
QuoteRequiredItemDigits(i, item, quote) ==
    IF ~scan(item, FALSE, TRUE).needsQuote
    THEN (IF i # 1 THEN << Dot >> ELSE << >>) \o item
    ELSE QuoteItem(i, item, quote)

\* One turn of the loop of QuoteRequiredBackticks for item i (from 1).
QuoteRequiredItem(i, item, quote) ==
    IF ~scan(item, FALSE, TRUE).needsQuote /\ ~scan(item, FALSE, TRUE).onlyDigits
    THEN (IF i # 1 THEN << Dot >> ELSE << >>) \o item
    ELSE QuoteItem(i, item, quote)

\* QuoteRequiredBackticks
QuoteRequiredBackticksParts(tableAndColumn) ==
    Written([i \in 1..Len(tableAndColumn) |->
                QuoteRequiredItem(i, tableAndColumn[i], Backtick)])

\* QuoteRequiredANSI, which the tests call: a part made only of ASCII
\* letters, digits, '$', '_' and runes of U+0080..U+FFFF that is not made of
\* digits only stays as it is, any other part is quoted as QuoteANSI does.
QuoteRequiredANSIParts(tableAndColumn) ==
    Written([i \in 1..Len(tableAndColumn) |->
        LET item == tableAndColumn[i]
            digit(r) == r \in 48..57
            plain(r) == r \in (48..57) \cup (97..122) \cup (65..90) \cup { 36, 95 }
                           \/ (r >= 128 /\ r <= 65535)
        IN  IF /\ \A k \in 1..Len(item) : plain(item[k])
               /\ \E k \in 1..Len(item) : ~digit(item[k])
            THEN (IF i # 1 THEN << Dot >> ELSE << >>) \o item
            ELSE QuoteItem(i, item, DoubleQuote)])

QuoteFuncs ==
    { "QuoteANSI", "QuoteBackticks", "QuoteRequiredBackticks", "QuoteRequiredANSI" }

QCall(fn, tableAndColumn) == [fn |-> fn, tableAndColumn |-> tableAndColumn]

NoQCall == QCall("none", << >>)

(***************************************************************************)
(* SplitStatements (statement.go), on a text as the sequence of its runes. *)
(* The locals of the loop are one record; offsets are Go's, from 0, so the *)
(* rune at offset i is s[i + 1].                                           *)
(***************************************************************************)
Semicolon == 59     \* ';'

SingleQuote == 39   \* '\''

Dash == 45          \* '-'

Slash == 47         \* '/'

Asterisk == 42      \* '*'

Newline == 10       \* '\n'

Space == 32         \* ' '

quoteChars == { DoubleQuote, SingleQuote, Backtick }

\* The runes scripts are made of: the ones SplitStatements tells apart, a
\* letter and a space.
ScriptRunes ==
    { Semicolon, SingleQuote, DoubleQuote, Backtick, Dash, Slash, Asterisk, Newline, Space, 97 }

RECURSIVE ScriptsUpTo(_)
ScriptsUpTo(n) ==
    IF n = 0 THEN { << >> }
    ELSE ScriptsUpTo(n - 1) \cup
         { Append(t, r) : t \in { u \in ScriptsUpTo(n - 1) : Len(u) = n - 1 }, r \in ScriptRunes }

Scripts == ScriptsUpTo(MaxScriptLen)

\* unicode.IsSpace for the runes below U+0100
WhiteSpace == { 9, 10, 11, 12, 13, Space, 133, 160 }

\* strings.TrimSpace
RECURSIVE TrimLeft(_)
TrimLeft(s) ==
    IF s = << >> THEN s
    ELSE IF Head(s) \in WhiteSpace THEN TrimLeft(Tail(s)) ELSE s

RECURSIVE TrimRight(_)
TrimRight(s) ==
    IF s = << >> THEN s
    ELSE IF s[Len(s)] \in WhiteSpace THEN TrimRight(SubSeq(s, 1, Len(s) - 1)) ELSE s

TrimSpace(s) == TrimRight(TrimLeft(s))

\* s[from:to]
Slice(s, from, to) == SubSeq(s, from + 1, to)

\* res after `st := strings.TrimSpace(...); if len(st) > 0 { res = append(res, st) }`
Appended(res, piece) ==
    IF Len(TrimSpace(piece)) > 0 THEN Append(res, TrimSpace(piece)) ELSE res

\* The locals before the loop.
Locals ==
    [quoteOpened |-> 0, prevStart |-> 0, prevQuot |-> FALSE,
     lineCommentStarted |-> FALSE, prevDash |-> FALSE,
     blockCommentStarted |-> FALSE, prevSlash |-> FALSE, prevAsterisk |-> FALSE,
     res |-> << >>]

\* The part of the loop body after the quote handling: comments, separator.
afterQuotes(s, i, c, l) ==
    IF c = Dash /\ l.prevDash
    THEN [l EXCEPT !.prevDash = FALSE, !.lineCommentStarted = TRUE]
    ELSE LET d == [l EXCEPT !.prevDash = (c = Dash)] IN
         IF c = Slash
         THEN IF d.prevAsterisk /\ d.blockCommentStarted
              THEN [d EXCEPT !.blockCommentStarted = FALSE, !.prevAsterisk = FALSE]
              ELSE [d EXCEPT !.prevSlash = TRUE]
         ELSE IF c = Asterisk
         THEN IF d.prevSlash /\ ~d.blockCommentStarted
              THEN [d EXCEPT !.blockCommentStarted = TRUE, !.prevSlash = FALSE]
              ELSE [d EXCEPT !.prevAsterisk = TRUE]
         ELSE LET e == [d EXCEPT !.prevSlash = FALSE, !.prevAsterisk = FALSE] IN
              IF c = Semicolon
              THEN [e EXCEPT !.res = Appended(e.res, Slice(s, e.prevStart, i)),
                             !.prevStart = i + 1]
              ELSE e

\* The part of the loop body from `for _, q := range quoteChars` on.
openQuote(s, i, c, l) ==
    IF c \in quoteChars THEN [l EXCEPT !.quoteOpened = c]
    ELSE IF l.quoteOpened # 0 THEN l
    ELSE afterQuotes(s, i, c, l)

\* One turn of the loop, for the rune c at offset i.
turn(s, i, c, l) ==
    IF l.blockCommentStarted /\ c # Asterisk /\ c # Slash THEN l
    ELSE IF l.lineCommentStarted
    THEN (IF c = Newline THEN [l EXCEPT !.lineCommentStarted = FALSE] ELSE l)
    ELSE IF l.quoteOpened # 0 /\ c = l.quoteOpened
    THEN [l EXCEPT !.prevQuot = ~l.prevQuot]
    ELSE IF l.quoteOpened # 0 /\ l.prevQuot
    THEN openQuote(s, i, c, [l EXCEPT !.prevQuot = FALSE, !.quoteOpened = 0])
    ELSE openQuote(s, i, c, l)

RECURSIVE loop(_, _, _)
loop(s, i, l) == IF i >= Len(s) THEN l ELSE loop(s, i + 1, turn(s, i, s[i + 1], l))

\* SplitStatements
SplitStatements(s) ==
    LET l == loop(s, 0, Locals) IN Appended(l.res, Slice(s, l.prevStart, Len(s)))

\* The parts of the state a specification of one component leaves at rest.
QuoteIdle == qcall = NoQCall /\ qret = << >>

SplitIdle == script = << >> /\ statements = << >>

TypeMapIdle == mu = << >> /\ typesOf = << >> /\ structMaps = << >> /\ goroutines = << >>

LibraryIdle == QuoteIdle /\ SplitIdle /\ TypeMapIdle

Init ==
    /\ types = << >>
    /\ Dialect \in Dialects
    /\ call = NoCall
    /\ ret = Result([none |-> TRUE])
    /\ IdentifierQuoter = "nil"
    /\ refs = << >> /\ quotedCols = << >> /\ columnNames = << >> /\ structRefs = << >>
    /\ rcall = NoRCall
    /\ rret = RString("")
    /\ registered = << >>
    /\ db = << >> /\ ctx = NoTx /\ stack = << >> /\ last = NoInTx
    /\ OnError = FALSE
    /\ observed = << >>
    /\ Trace = FALSE /\ ran = NoStatement
    /\ LibraryIdle

CallInsert ==
    /\ call.op = "none"
    /\ \E into \in Tables, val \in Vals, o \in InsertOptionSets :
         /\ call' = Call("Insert", InsertBuilder(into), val, o)
         /\ ret' = Insert(InsertBuilder(into), val, o)
         /\ types' = cache(InsertCaches(val))
    /\ UNCHANGED <<Dialect, referencerVars, storageVars, libraryVars>>

CallUpdate ==
    /\ call.op = "none"
    /\ \E table \in Tables, val \in Vals, o \in OptionSets :
         /\ call' = Call("Update", UpdateBuilder(table), val, o)
         /\ ret' = Update(UpdateBuilder(table), val, o)
         /\ types' = cache(IF val.form = "nil" THEN {} ELSE cachedBy(ValueOf(val)))
    /\ UNCHANGED <<Dialect, referencerVars, storageVars, libraryVars>>

CallSelect ==
    /\ call.op = "none"
    /\ \E from \in Tables, val \in Vals, o \in OptionSets :
         /\ call' = Call("Select", SelectBuilder(from), val, o)
         /\ ret' = Select(SelectBuilder(from), val, o)
         /\ types' = cache(IF val.form = "nil" THEN {} ELSE cachedBy(ValueOf(val)))
    /\ UNCHANGED <<Dialect, referencerVars, storageVars, libraryVars>>

CallWhereEq ==
    /\ call.op = "none"
    /\ \E val \in Vals, o \in OptionSets :
         /\ call' = Call("WhereEq", [none |-> TRUE], val, o)
         /\ ret' = WhereEq(val, o)
         /\ types' = cache(cachedBy(ValueOf(val)))
    /\ UNCHANGED <<Dialect, referencerVars, storageVars, libraryVars>>

CallColumnsValues ==
    /\ call.op = "none"
    /\ \E val \in Vals, o \in OptionSets :
         /\ call' = Call("ColumnsValues", [none |-> TRUE], val, o)
         /\ ret' = ColumnsValues(ValueOf(val), o)
         /\ types' = cache(cachedBy(ValueOf(val)))
    /\ UNCHANGED <<Dialect, referencerVars, storageVars, libraryVars>>

\* The caller takes the result; the Mapper keeps its cache.
Return ==
    /\ call.op # "none"
    /\ call' = NoCall
    /\ ret' = Result([none |-> TRUE])
    /\ UNCHANGED <<types, Dialect, referencerVars, storageVars, libraryVars>>

Next ==
    \/ CallInsert
    \/ CallUpdate
    \/ CallSelect
    \/ CallWhereEq
    \/ CallColumnsValues
    \/ Return

Spec == Init /\ [][Next]_vars

(***************************************************************************)
(* The Referencer state machine: a statement builder registers rows and    *)
(* asks for references, one call at a time.  AddTableAlias goes through    *)
(* Mapper.FindColumnNames and so fills the Mapper's type cache.            *)
(***************************************************************************)
MaxFmtArgs == 2    \* most arguments after the format of one Fmt call

RowPtrs == { Ptr(obj, << >>) : obj \in RowObjects }
FieldPtrs == { Ptr(obj, << i >>) : obj \in RowObjects, i \in 1..Len(User) }

LookupArgs ==
    RowPtrs \cup FieldPtrs \cup { NoTable(p) : p \in RowPtrs \cup FieldPtrs }
        \cup { QuotedArg("users"), StringArg("manager"), NilArg, Literal("John"),
               NoTable(Literal("John")) }

FmtArgs ==
    { Ptr("manager", << 1 >>), Ptr("employee", << >>), NoTable(Ptr("manager", << 3 >>)),
      QuotedArg("users"), Literal("John") }

Formats == { "%s AS %s" }

InitReferencer ==
    /\ types = << >>
    /\ Dialect = DialectUnknown
    /\ call = NoCall
    /\ ret = Result([none |-> TRUE])
    /\ IdentifierQuoter \in IdentifierQuoters
    /\ refs = << >> /\ quotedCols = << >> /\ columnNames = << >> /\ structRefs = << >>
    /\ rcall = NoRCall
    /\ rret = RString("")
    /\ registered = << >>
    /\ db = << >> /\ ctx = NoTx /\ stack = << >> /\ last = NoInTx
    /\ OnError = FALSE
    /\ observed = << >>
    /\ Trace = FALSE /\ ran = NoStatement
    /\ LibraryIdle

\* The caller's record of its AddTableAlias calls: the last alias of a row
\* pointer and all the aliases it was added under.
Added(rowStructPtr, alias) ==
    (rowStructPtr :>
        [last |-> alias,
         all |-> { alias } \cup (IF rowStructPtr \in DOMAIN registered
                                 THEN registered[rowStructPtr].all ELSE {})]) @@ registered

CallAddTableAlias ==
    \E rowStructPtr \in RowPtrs \cup { NilArg } \cup { RowValue(obj) : obj \in RowObjects },
       alias \in Aliases :
        /\ rcall' = RCall("AddTableAlias", rowStructPtr, alias, << >>)
        /\ IF FindColumnNames(rowStructPtr).err
           THEN /\ rret' = RPanic
                /\ UNCHANGED <<types, refs, quotedCols, columnNames, structRefs, registered>>
           ELSE /\ rret' = RString("")
                /\ registered' = Added(rowStructPtr, alias)
                /\ types' = typesAfter(TypeOf(rowStructPtr.obj))
                /\ refs' = AddTableAliasRefs(rowStructPtr, alias, FindColumnNames(rowStructPtr).names)
                /\ quotedCols' = AddTableAliasQuotedCols(FindColumnNames(rowStructPtr).names)
                /\ columnNames' = AddTableAliasColumnNames(FindColumnNames(rowStructPtr).names)
                /\ structRefs' =
                       AddTableAliasStructRefs(rowStructPtr, alias, FindColumnNames(rowStructPtr).names)
        /\ UNCHANGED <<Dialect, call, ret, IdentifierQuoter, storageVars, libraryVars>>

registry ==
    <<types, Dialect, call, ret, IdentifierQuoter, refs, quotedCols, columnNames, structRefs,
      registered, storageVars, libraryVars>>

CallRef ==
    \E ptr \in LookupArgs :
        /\ rcall' = RCall("Ref", ptr, "", << >>)
        /\ rret' = Ref(ptr)
        /\ UNCHANGED registry

CallCol ==
    \E ptr \in LookupArgs :
        /\ rcall' = RCall("Col", ptr, "", << >>)
        /\ rret' = Col(ptr)
        /\ UNCHANGED registry

CallCols ==
    \E ptr \in LookupArgs :
        /\ rcall' = RCall("Cols", ptr, "", << >>)
        /\ rret' = Cols(ptr)
        /\ UNCHANGED registry

CallFmt ==
    \E format \in Formats, ptrs \in SeqsUpTo(FmtArgs, MaxFmtArgs) :
        /\ rcall' = RCall("Fmt", NilArg, format, ptrs)
        /\ rret' = Fmt(format, ptrs)
        /\ UNCHANGED registry

CallColumnsOf ==
    \E rowStructPtr \in LookupArgs :
        /\ rcall' = RCall("ColumnsOf", rowStructPtr, "", << >>)
        /\ rret' = ColumnsOf(rowStructPtr)
        /\ UNCHANGED registry

NextReferencer ==
    \/ CallAddTableAlias
    \/ CallRef
    \/ CallCol
    \/ CallCols
    \/ CallFmt
    \/ CallColumnsOf

SpecReferencer == InitReferencer /\ [][NextReferencer]_vars

(***************************************************************************)
(* The Storage state machine: a caller, which may have begun a transaction *)
(* itself and carry it in its context, calls InTx; the callback fn may     *)
(* call InTx again, with the context it was given or with one that carries  *)
(* no transaction; fn returns nil or an error, or panics.                  *)
(***************************************************************************)
MaxTx == 3       \* most transactions begun on the database
MaxDepth == 3    \* most InTx calls running inside one another

Begun == Len(SelectSeq(db, LAMBDA d : d.op = "begin"))
NewTx == Begun + 1

InitStorage ==
    /\ types = << >>
    /\ Dialect = DialectUnknown
    /\ call = NoCall
    /\ ret = Result([none |-> TRUE])
    /\ IdentifierQuoter = "nil"
    /\ refs = << >> /\ quotedCols = << >> /\ columnNames = << >> /\ structRefs = << >>
    /\ rcall = NoRCall
    /\ rret = RString("")
    /\ registered = << >>
    /\ db = << >> /\ ctx = NoTx /\ stack = << >> /\ last = NoInTx
    /\ OnError \in BOOLEAN
    /\ observed = << >>
    /\ Trace \in BOOLEAN /\ ran = NoStatement
    /\ LibraryIdle

others == <<types, Dialect, call, ret, referencerVars, libraryVars>>

\* The caller begins a transaction itself and puts it into its context.
CallerBeginTxx ==
    /\ stack = << >> /\ ctx = NoTx /\ Begun < MaxTx
    /\ db' = Append(db, DbCall("begin", NewTx, TRUE))
    /\ ctx' = TxToContext(ctx, NewTx)
    /\ UNCHANGED <<stack, last, OnError, observed, Trace, ran, others>>

\* The contexts the code that is running now can call InTx with.
Contexts == IF stack = << >> THEN { NoTx, ctx } ELSE { NoTx, stack[Len(stack)].tx }

\* Storage.InTx up to the call of fn.
CallInTx ==
    /\ Len(stack) < MaxDepth
    /\ stack # << >> => ~stack[Len(stack)].panicking
    /\ \E c \in Contexts, ok \in BOOLEAN :
         IF TxFromContext(c) = NoTx
         THEN /\ Begun < MaxTx
              /\ db' = Append(db, DbCall("begin", NewTx, ok))
              /\ IF ~ok
                 THEN /\ last' = Finished(Frame(NoTx, NoTx), 1, "none", NilErr, << >>,
                                          WrapError(DbError("begin"), "failed to begin tx", << >>))
                      /\ observed' =
                             error(<< >>, WrapError(DbError("begin"), "failed to begin tx", << >>))
                      /\ ran' = NoStatement
                      /\ UNCHANGED stack
                 ELSE /\ stack' = Append(stack, Frame(NoTx, TxToContext(c, NewTx)))
                      /\ UNCHANGED <<last, observed, ran>>
         ELSE /\ stack' = Append(stack, Frame(TxFromContext(c), TxFromContext(c)))
              /\ UNCHANGED <<db, last, observed, ran>>
    /\ UNCHANGED <<ctx, OnError, Trace, others>>

RECURSIVE errorAll(_, _)
errorAll(seen, reported) ==
    IF reported = << >> THEN seen ELSE errorAll(error(seen, Head(reported)), Tail(reported))

FnErrors == { NewError("error") }

finishAlways(frame, err, ok) == submitTx(frame.tx, err, ok)

\* What the deferred finish does with the error fn returned: submitTx for
\* the InTx that began the transaction, nothing for the others.
finish(frame, err, ok) ==
    IF frame.ctxTx = NoTx THEN submitTx(frame.tx, err, ok)
    ELSE [err |-> err, db |-> << >>, reported |-> << >>]

Unwind(frames, fn) ==
    IF fn = "panic" /\ frames # << >>
    THEN [frames EXCEPT ![Len(frames)].panicking = TRUE]
    ELSE frames

\* fn ends; the deferred finish runs and InTx returns (or the panic goes on
\* to the caller).  After a panic the result err is still nil when finish
\* runs.
FnReturns ==
    /\ stack # << >>
    /\ \E fn \in { "nil", "error", "panic" }, fnErr \in FnErrors, ok \in BOOLEAN :
         /\ stack[Len(stack)].panicking => fn = "panic"
         /\ \E done \in { finish(stack[Len(stack)], IF fn = "error" THEN fnErr ELSE NilErr, ok) } :
              /\ db' = db \o done.db
              /\ observed' = errorAll(<< >>, done.reported)
              /\ last' = Finished(stack[Len(stack)], IF stack[Len(stack)].ctxTx = NoTx THEN 1 ELSE 0,
                                  fn, IF fn = "error" THEN fnErr ELSE NilErr, done.db, done.err)
    /\ stack' = Unwind(SubSeq(stack, 1, Len(stack) - 1), last'.fn)
    /\ ran' = NoStatement
    /\ UNCHANGED <<ctx, OnError, Trace, others>>

NextStorage ==
    \/ CallerBeginTxx
    \/ CallInTx
    \/ FnReturns

SpecStorage == InitStorage /\ [][NextStorage]_vars

(***************************************************************************)
(* Statements run by the caller or by fn inside a running InTx, with the   *)
(* context the running code has.                                           *)
(***************************************************************************)
Builders ==
    { ToSQL("SELECT one FROM table WHERE two = $1", << 2 >>, NilErr),
      ToSQL("", << >>, NewError("build error")) }

ExecutorErrors == { NilErr, DbError("exec"), ErrNoRows }

Running == IF stack = << >> THEN TRUE ELSE ~stack[Len(stack)].panicking

CallExec ==
    /\ Running
    /\ \E c \in Contexts, qb \in Builders, err \in ExecutorErrors :
         /\ ran' = Exec(c, qb, err)
         /\ observed' = errorAll(<< >>, Exec(c, qb, err).reported)
    /\ last' = NoInTx
    /\ UNCHANGED <<db, ctx, stack, OnError, Trace, others>>

CallQuery ==
    /\ Running
    /\ \E c \in Contexts, qb \in Builders, err \in ExecutorErrors :
         /\ ran' = Query(c, qb, err)
         /\ observed' = errorAll(<< >>, Query(c, qb, err).reported)
    /\ last' = NoInTx
    /\ UNCHANGED <<db, ctx, stack, OnError, Trace, others>>

CallStorageSelect ==
    /\ Running
    /\ \E c \in Contexts, qb \in Builders, dest \in { "slice", "struct" }, err \in ExecutorErrors :
         /\ ran' = StorageSelect(c, qb, dest, err)
         /\ observed' = errorAll(<< >>, StorageSelect(c, qb, dest, err).reported)
    /\ last' = NoInTx
    /\ UNCHANGED <<db, ctx, stack, OnError, Trace, others>>

NextStatements ==
    \/ CallerBeginTxx
    \/ CallInTx
    \/ FnReturns
    \/ CallExec
    \/ CallQuery
    \/ CallStorageSelect

SpecStatements == InitStorage /\ [][NextStatements]_vars

ReferencerIdle ==
    /\ IdentifierQuoter = "nil"
    /\ refs = << >> /\ quotedCols = << >> /\ columnNames = << >> /\ structRefs = << >>
    /\ rcall = NoRCall /\ rret = RString("") /\ registered = << >>

StorageIdle ==
    /\ db = << >> /\ ctx = NoTx /\ stack = << >> /\ last = NoInTx
    /\ OnError = FALSE /\ observed = << >>
    /\ Trace = FALSE /\ ran = NoStatement

(***************************************************************************)
(* The quoting functions: every call quotes a list of parts.               *)
(***************************************************************************)
InitQuote ==
    /\ types = << >>
    /\ Dialect = DialectUnknown
    /\ call = NoCall
    /\ ret = Result([none |-> TRUE])
    /\ ReferencerIdle
    /\ StorageIdle
    /\ qcall = NoQCall /\ qret = << >>
    /\ SplitIdle
    /\ TypeMapIdle

quoted == <<types, Dialect, call, ret, referencerVars, storageVars, splitVars, typeMapVars>>

CallQuoteANSI ==
    /\ qcall = NoQCall
    /\ \E tableAndColumn \in PartLists :
         /\ qcall' = QCall("QuoteANSI", tableAndColumn)
         /\ qret' = QuoteANSIParts(tableAndColumn)
    /\ UNCHANGED quoted

CallQuoteBackticks ==
    /\ qcall = NoQCall
    /\ \E tableAndColumn \in PartLists :
         /\ qcall' = QCall("QuoteBackticks", tableAndColumn)
         /\ qret' = QuoteBackticksParts(tableAndColumn)
    /\ UNCHANGED quoted

CallQuoteRequiredBackticks ==
    /\ qcall = NoQCall
    /\ \E tableAndColumn \in PartLists :
         /\ qcall' = QCall("QuoteRequiredBackticks", tableAndColumn)
         /\ qret' = QuoteRequiredBackticksParts(tableAndColumn)
    /\ UNCHANGED quoted

CallQuoteRequiredANSI ==
    /\ qcall = NoQCall
    /\ \E tableAndColumn \in PartLists :
         /\ qcall' = QCall("QuoteRequiredANSI", tableAndColumn)
         /\ qret' = QuoteRequiredANSIParts(tableAndColumn)
    /\ UNCHANGED quoted

\* The caller has the text and may quote again.
ReturnQuoted ==
    /\ qcall # NoQCall
    /\ qcall' = NoQCall /\ qret' = << >>
    /\ UNCHANGED quoted

NextQuote ==
    \/ CallQuoteANSI
    \/ CallQuoteBackticks
    \/ CallQuoteRequiredBackticks
    \/ CallQuoteRequiredANSI
    \/ ReturnQuoted

SpecQuote == InitQuote /\ [][NextQuote]_vars

(***************************************************************************)
(* SplitStatements: every call splits a script.                            *)
(***************************************************************************)
InitSplit ==
    /\ types = << >>
    /\ Dialect = DialectUnknown
    /\ call = NoCall
    /\ ret = Result([none |-> TRUE])
    /\ ReferencerIdle
    /\ StorageIdle
    /\ QuoteIdle
    /\ script = << >> /\ statements = << >>
    /\ TypeMapIdle

CallSplitStatements ==
    /\ script = << >>
    /\ \E s \in Scripts :
         /\ script' = s
         /\ statements' = SplitStatements(s)
    /\ UNCHANGED <<types, Dialect, call, ret, referencerVars, storageVars, quoteVars, typeMapVars>>

\* The caller has the statements and may split another script.
ReturnStatements ==
    /\ script # << >>
    /\ script' = << >> /\ statements' = << >>
    /\ UNCHANGED <<types, Dialect, call, ret, referencerVars, storageVars, quoteVars, typeMapVars>>

NextSplit ==
    \/ CallSplitStatements
    \/ ReturnStatements

SpecSplit == InitSplit /\ [][NextSplit]_vars

(***************************************************************************)
(* Mapper.typeMap called from several goroutines.  There are two Mappers   *)
(* with a nil ReflectMapper, so both use the package's reflectMapper, and  *)
(* one record type, T.  reflectx.Mapper.TypeMap keeps one StructMap per     *)
(* type under its own mutex and gives every caller the pointer to it;      *)
(* typeMap assigns the filtered index to the Index field of that StructMap.*)
(* A step is one access of shared memory.  The assignment of the slice     *)
(* tm.Index is not atomic: it is a step that starts it and a step that     *)
(* ends it, and a read between the two may see the old slice, the new one  *)
(* or the old array with the new length.                                   *)
(***************************************************************************)
Mappers == 1..2

Goroutines == 1..MaxGoroutines

T == "Sample"

NilStructMap == 0

\* The goroutine is not in a mapping call.
Idle == [pc |-> "idle", sm |-> 0, tm |-> NilStructMap, index |-> << >>, seen |-> << >>]

\* reflectx.StructMap: Index, and the assignments to Index that have begun
StructMap(index, assigning) == [Index |-> index, assigning |-> assigning]

\* What a read of a slice sees while it is being assigned.
Torn(old, new) ==
    { old, new, SubSeq(old, 1, IF Len(new) < Len(old) THEN Len(new) ELSE Len(old)) }

\* What goroutine g may read from tm.Index.
IndexRead(g, tm) ==
    LET begun == { a \in structMaps[tm].assigning : a[1] # g } IN
    IF begun = {} THEN { structMaps[tm].Index }
    ELSE UNION { Torn(structMaps[tm].Index, a[2]) : a \in begun }

\* What tm.Index may hold when the assignment of goroutine g ends.
IndexWritten(g, tm) ==
    LET begun == { a \in structMaps[tm].assigning : a[1] # g } IN
    IF begun = {} THEN { goroutines[g].index }
    ELSE UNION { Torn(goroutines[g].index, a[2]) : a \in begun }

InitTypeMap ==
    /\ types = << >>
    /\ Dialect = DialectUnknown
    /\ call = NoCall
    /\ ret = Result([none |-> TRUE])
    /\ ReferencerIdle
    /\ StorageIdle
    /\ QuoteIdle
    /\ SplitIdle
    /\ mu = [m \in Mappers |-> 0]
    /\ typesOf = [m \in Mappers |-> NilStructMap]
    /\ structMaps = << >>
    /\ goroutines = [g \in Goroutines |-> Idle]

untouched == <<types, Dialect, call, ret, referencerVars, storageVars, quoteVars, splitVars>>

At(g, pc) == goroutines[g].pc = pc

Goes(g, pc) == goroutines' = [goroutines EXCEPT ![g].pc = pc]

\* A mapping operation (findColumnNames, colType) is called on Mapper sm.
CallMapping ==
    /\ \E g \in Goroutines, sm \in Mappers :
         /\ At(g, "idle")
         /\ goroutines' = [goroutines EXCEPT ![g].pc = "Lock", ![g].sm = sm]
    /\ UNCHANGED <<mu, typesOf, structMaps, untouched>>

\* sm.mu.Lock()
Lock ==
    /\ \E g \in Goroutines :
         /\ At(g, "Lock")
         /\ mu[goroutines[g].sm] = 0
         /\ mu' = [mu EXCEPT ![goroutines[g].sm] = g]
         /\ Goes(g, "types")
    /\ UNCHANGED <<typesOf, structMaps, untouched>>

\* tm, found := sm.types[t]; if found { return tm }
Found ==
    /\ \E g \in Goroutines :
         /\ At(g, "types")
         /\ IF typesOf[goroutines[g].sm] # NilStructMap
            THEN goroutines' = [goroutines EXCEPT ![g].pc = "Unlock",
                                                  ![g].tm = typesOf[goroutines[g].sm]]
            ELSE Goes(g, "TypeMap")
    /\ UNCHANGED <<mu, typesOf, structMaps, untouched>>

\* tm = sm.reflectMapper().TypeMap(t)
ReflectTypeMap ==
    /\ \E g \in Goroutines :
         /\ At(g, "TypeMap")
         /\ structMaps' = IF structMaps = << >> THEN << StructMap(TypeMap(T), {}) >>
                          ELSE structMaps
         /\ goroutines' = [goroutines EXCEPT ![g].pc = "range", ![g].tm = 1]
    /\ UNCHANGED <<mu, typesOf, untouched>>

\* for _, fi := range tm.Index { ... index = append(index, fi) }
RangeIndex ==
    /\ \E g \in Goroutines :
         /\ At(g, "range")
         /\ \E index \in IndexRead(g, goroutines[g].tm) :
              goroutines' = [goroutines EXCEPT ![g].pc = "assign",
                                               ![g].index = filterIndex(index)]
    /\ UNCHANGED <<mu, typesOf, structMaps, untouched>>

\* tm.Index = index, started
AssignIndex ==
    /\ \E g \in Goroutines :
         /\ At(g, "assign")
         /\ structMaps' = [structMaps EXCEPT ![goroutines[g].tm].assigning =
                              @ \cup { << g, goroutines[g].index >> }]
         /\ Goes(g, "assigning")
    /\ UNCHANGED <<mu, typesOf, untouched>>

\* tm.Index = index, done
AssignedIndex ==
    /\ \E g \in Goroutines :
         /\ At(g, "assigning")
         /\ \E index \in IndexWritten(g, goroutines[g].tm) :
              structMaps' = [structMaps EXCEPT
                                ![goroutines[g].tm] =
                                    StructMap(index, { a \in @.assigning : a[1] # g })]
         /\ Goes(g, "publish")
    /\ UNCHANGED <<mu, typesOf, untouched>>

\* sm.types[t] = tm; return tm
Publish ==
    /\ \E g \in Goroutines :
         /\ At(g, "publish")
         /\ typesOf' = [typesOf EXCEPT ![goroutines[g].sm] = goroutines[g].tm]
         /\ Goes(g, "Unlock")
    /\ UNCHANGED <<mu, structMaps, untouched>>

\* defer sm.mu.Unlock()
Unlock ==
    /\ \E g \in Goroutines :
         /\ At(g, "Unlock")
         /\ mu' = [mu EXCEPT ![goroutines[g].sm] = 0]
         /\ Goes(g, "use")
    /\ UNCHANGED <<typesOf, structMaps, untouched>>

\* The caller of typeMap walks the index: for _, fi := range tm.Index
UseIndex ==
    /\ \E g \in Goroutines :
         /\ At(g, "use")
         /\ \E index \in IndexRead(g, goroutines[g].tm) :
              goroutines' = [goroutines EXCEPT ![g].pc = "done", ![g].seen = index]
    /\ UNCHANGED <<mu, typesOf, structMaps, untouched>>

\* The mapping operation returns.
ReturnMapping ==
    /\ \E g \in Goroutines :
         /\ At(g, "done")
         /\ goroutines' = [goroutines EXCEPT ![g] = Idle]
    /\ UNCHANGED <<mu, typesOf, structMaps, untouched>>

NextTypeMap ==
    \/ CallMapping
    \/ Lock
    \/ Found
    \/ ReflectTypeMap
    \/ RangeIndex
    \/ AssignIndex
    \/ AssignedIndex
    \/ Publish
    \/ Unlock
    \/ UseIndex
    \/ ReturnMapping

SpecTypeMap == InitTypeMap /\ [][NextTypeMap]_vars

(***************************************************************************)
(* Vocabulary of the properties, read off the struct declarations alone.   *)
(***************************************************************************)
RECURSIVE AllPaths(_)
AllPaths(t) ==
    UNION { { <<i>> } \cup
            (IF StructFields(t)[i].Kind = "struct"
             THEN { <<i>> \o p : p \in AllPaths(StructFields(t)[i].Type) }
             ELSE {}) : i \in 1..Len(StructFields(t)) }

RECURSIVE FieldDecl(_, _)
FieldDecl(t, p) ==
    IF Len(p) = 1 THEN StructFields(t)[p[1]]
    ELSE FieldDecl(StructFields(t)[p[1]].Type, Tail(p))

\* Every struct boundary above the field at p is an anonymous embedding.
RECURSIVE OnlyEmbeddedAbove(_, _)
OnlyEmbeddedAbove(t, p) ==
    IF Len(p) = 1 THEN TRUE
    ELSE /\ StructFields(t)[p[1]].Anonymous
         /\ OnlyEmbeddedAbove(StructFields(t)[p[1]].Type, Tail(p))

ColumnPaths(t) ==
    { p \in AllPaths(t) :
        /\ FieldDecl(t, p).Tag = "db"
        /\ ~FieldDecl(t, p).Anonymous
        /\ OnlyEmbeddedAbove(t, p) }

\* The type follows the column tag convention: a field has a db tag or no tag.
ColumnTagged(t) == \A p \in AllPaths(t) : FieldDecl(t, p).Tag \in { "", "db" }

IsPrefix(p, l) == Len(l) >= Len(p) /\ SubSeq(l, 1, Len(p)) = p
ZeroAt(rec, p) == \A l \in DOMAIN rec : IsPrefix(p, l) => rec[l] = 0
ValueAt(rec, p) == [ q \in { SubSeq(l, Len(p) + 1, Len(l)) : l \in { k \in DOMAIN rec : IsPrefix(p, k) } } |-> rec[p \o q] ]

Quoted(o, name) == IF o.PrepareColumn.fn = "QuoteANSI" THEN "\"" \o name \o "\"" ELSE name

\* Columns of type t left by the allow-list of the call's options.
Allowed(t, o) ==
    { p \in ColumnPaths(t) : o.Columns = {} \/ FieldDecl(t, p).Col \in o.Columns }

ValueOps == { "Insert", "Update", "WhereEq", "ColumnsValues" }

IsRecord(val) == val.form \in { "val", "ptr" } /\ val.kind = "struct"
IsSlice(val) == val.form = "val" /\ val.kind = "slice"

\* The call served a single record of a type with column tags and returned.
SingleRecordDone ==
    /\ call.op \in ValueOps /\ IsRecord(call.val) /\ ~ret.panic
    /\ ColumnTagged(call.val.type)

TheRecord == call.val.items[1]

EmittedColumns ==
    CASE call.op \in { "Insert", "Select" } -> ret.q.columns
      [] call.op = "Update" -> [ i \in 1..Len(ret.q.setClauses) |-> ret.q.setClauses[i].column ]
      [] call.op = "ColumnsValues" -> ret.columns
      [] OTHER -> << >>

EmittedSet ==
    IF call.op = "WhereEq" THEN (IF ret.nil THEN {} ELSE DOMAIN ret.eq)
    ELSE Range(EmittedColumns)

Emits(p) == Quoted(call.o, FieldDecl(call.val.type, p).Col) \in EmittedSet

(***************************************************************************)
(* C1: zero-omission policy for a single record.  With default options a   *)
(* field is omitted iff it has omitempty and is zero; with IgnoreOmitEmpty *)
(* alone no field is omitted for its value; with SkipZeroValues a field is *)
(* omitted iff it is zero, with or without omitempty.                      *)
(***************************************************************************)
C1_ZeroOmissionPolicy ==
    SingleRecordDone =>
        \A p \in Allowed(call.val.type, call.o) :
            LET zero == ZeroAt(TheRecord, p)
                omitempty == FieldDecl(call.val.type, p).OmitEmpty
            IN  /\ call.o.SkipZeroValues => (Emits(p) <=> ~zero)
                /\ (~call.o.SkipZeroValues /\ call.o.IgnoreOmitEmpty) => Emits(p)
                /\ (~call.o.SkipZeroValues /\ ~call.o.IgnoreOmitEmpty) =>
                       (Emits(p) <=> ~(omitempty /\ zero))

\* Product{ID: 1} with SkipZeroValues gives [id]: price is dropped without omitempty.
C1_Witness ==
    /\ call.op = "ColumnsValues" /\ ~ret.panic
    /\ call.val.form = "val" /\ call.val.type = "Product"
    /\ call.o.SkipZeroValues /\ call.o.Columns = {} /\ call.o.PrepareColumn.fn = "nil"
    /\ TheRecord[<<1>>] = 1 /\ TheRecord[<<2>>] = 0 /\ TheRecord[<<3>>] = 0
    /\ ret.columns = << "id" >>

(***************************************************************************)
(* C2: every Insert of a non-empty slice gives one column list and rows    *)
(* that all have one value per column, the j-th value of a row being that  *)
(* element's field for the j-th column.                                    *)
(***************************************************************************)
SliceInsertDone ==
    call.op = "Insert" /\ IsSlice(call.val) /\ call.val.items # << >> /\ ~ret.panic

PathOfColumn(t, o, c) == CHOOSE p \in ColumnPaths(t) : Quoted(o, FieldDecl(t, p).Col) = c

RowsMatchColumns ==
    /\ Len(ret.q.values) = Len(call.val.items)
    /\ \A c \in Range(ret.q.columns) :
         \E p \in ColumnPaths(call.val.type) : Quoted(call.o, FieldDecl(call.val.type, p).Col) = c
    /\ \A i \in 1..Len(ret.q.values) :
         /\ Len(ret.q.values[i]) = Len(ret.q.columns)
         /\ \A j \in 1..Len(ret.q.columns) :
              ret.q.values[i][j] =
                 ValueAt(call.val.items[i], PathOfColumn(call.val.type, call.o, ret.q.columns[j]))

C2_RowsMatchColumnList == SliceInsertDone => RowsMatchColumns

(***************************************************************************)
(* C3: when element 0 of an inserted slice omits an omitempty field Y for  *)
(* its zero value and a later element has Y non-zero, the one column list  *)
(* is the union of the columns seen, contains Y, and every row carries a   *)
(* value for each column (element 0 carries Y's zero value).               *)
(***************************************************************************)
OmittedFor(rec, t, o, p) ==
    /\ ZeroAt(rec, p)
    /\ o.SkipZeroValues \/ (FieldDecl(t, p).OmitEmpty /\ ~o.IgnoreOmitEmpty)

Promoted(p) ==
    /\ FieldDecl(call.val.type, p).OmitEmpty
    /\ OmittedFor(call.val.items[1], call.val.type, call.o, p)
    /\ \E k \in 2..Len(call.val.items) : ~ZeroAt(call.val.items[k], p)

ObservedColumns ==
    { Quoted(call.o, FieldDecl(call.val.type, p).Col) :
        p \in { x \in Allowed(call.val.type, call.o) :
                  \E i \in 1..Len(call.val.items) :
                     ~OmittedFor(call.val.items[i], call.val.type, call.o, x) } }

C3_HeterogeneousPromotion ==
    (SliceInsertDone /\ \E p \in Allowed(call.val.type, call.o) : Promoted(p)) =>
        /\ \A p \in Allowed(call.val.type, call.o) : Promoted(p) => Emits(p)
        /\ Range(ret.q.columns) = ObservedColumns
        /\ RowsMatchColumns

(***************************************************************************)
(* C4: for a single record and any options the columns and values are      *)
(* parallel: equally long, values[i] read from the field whose column name *)
(* (after PrepareColumn) is columns[i].                                    *)
(***************************************************************************)
EmittedValues ==
    CASE call.op = "Insert" -> ret.q.values[1]
      [] call.op = "Update" -> [ i \in 1..Len(ret.q.setClauses) |-> ret.q.setClauses[i].value ]
      [] call.op = "ColumnsValues" -> ret.values
      [] OTHER -> << >>

C4_ParallelArrays ==
    (SingleRecordDone /\ call.op # "WhereEq") =>
        /\ Len(EmittedColumns) = Len(EmittedValues)
        /\ \A i \in 1..Len(EmittedColumns) :
             \E p \in ColumnPaths(call.val.type) :
                /\ EmittedColumns[i] = Quoted(call.o, FieldDecl(call.val.type, p).Col)
                /\ i <= Len(EmittedValues)
                /\ EmittedValues[i] = ValueAt(TheRecord, p)

\* A record with one field omitted and one kept, its column transformed.
C4_Witness ==
    /\ call.op = "ColumnsValues" /\ ~ret.panic /\ IsRecord(call.val)
    /\ call.val.type = "Product" /\ call.o.PrepareColumn.fn = "QuoteANSI"
    /\ ret.columns = << "\"name\"", "\"price\"" >>
    /\ ret.values = << ValueAt(TheRecord, <<2>>), ValueAt(TheRecord, <<3>>) >>
    /\ TheRecord[<<1>>] = 0 /\ TheRecord[<<2>>] = 1

(***************************************************************************)
(* C5 as stated: with IgnoreOmitEmpty in the option set, whatever else is  *)
(* in it, a field with omitempty is always emitted, even when zero.        *)
(***************************************************************************)
C5_IgnoreAlwaysWins ==
    (SingleRecordDone /\ call.o.IgnoreOmitEmpty) =>
        \A p \in Allowed(call.val.type, call.o) :
            FieldDecl(call.val.type, p).OmitEmpty => Emits(p)

(***************************************************************************)
(* C5 amended: with IgnoreOmitEmpty and without SkipZeroValues a field     *)
(* with omitempty that passes the Columns allow-list is always emitted,    *)
(* even when zero; with SkipZeroValues as well it is emitted iff non-zero. *)
(***************************************************************************)
C5_IgnoreWinsUnlessSkipZero ==
    (SingleRecordDone /\ call.o.IgnoreOmitEmpty) =>
        \A p \in Allowed(call.val.type, call.o) :
            FieldDecl(call.val.type, p).OmitEmpty =>
                IF call.o.SkipZeroValues THEN (Emits(p) <=> ~ZeroAt(TheRecord, p)) ELSE Emits(p)

C5_Witness ==
    /\ SingleRecordDone /\ call.op = "WhereEq" /\ call.val.type = "Product"
    /\ call.o.IgnoreOmitEmpty /\ ~call.o.SkipZeroValues /\ call.o.Columns = {}
    /\ ZeroAt(TheRecord, <<2>>) /\ Emits(<<2>>)

(***************************************************************************)
(* C6: Select reads its argument as a column shape only: the column list   *)
(* depends on the type, the Columns allow-list and PrepareColumn, not on   *)
(* field values nor on SkipZeroValues / IgnoreOmitEmpty.                   *)
(***************************************************************************)
ShortLexLess(p, q) ==
    \/ Len(p) < Len(q)
    \/ /\ Len(p) = Len(q)
       /\ \E k \in 1..Len(p) : p[k] < q[k] /\ \A j \in 1..(k - 1) : p[j] = q[j]

SelectDone ==
    /\ call.op = "Select" /\ ~ret.panic
    /\ IsRecord(call.val) \/ IsSlice(call.val)

C6_SelectShapeOnly ==
    SelectDone =>
        Range(ret.q.columns) =
            { Quoted(call.o, FieldDecl(call.val.type, p).Col) : p \in Allowed(call.val.type, call.o) }

(***************************************************************************)
(* C7: WhereEq returns nil exactly when no (column, value) pair is         *)
(* extracted under the options; otherwise a map with one column = value    *)
(* entry per extracted pair.                                               *)
(***************************************************************************)
ExtractedPaths ==
    { p \in Allowed(call.val.type, call.o) :
        ~OmittedFor(TheRecord, call.val.type, call.o, p) }

C7_WhereEqNilIffNoPairs ==
    (call.op = "WhereEq" /\ SingleRecordDone) =>
        /\ ret.nil <=> ExtractedPaths = {}
        /\ ~ret.nil =>
             /\ DOMAIN ret.eq = { Quoted(call.o, FieldDecl(call.val.type, p).Col) : p \in ExtractedPaths }
             /\ Cardinality(DOMAIN ret.eq) = Cardinality(ExtractedPaths)
             /\ \A p \in ExtractedPaths :
                  ret.eq[Quoted(call.o, FieldDecl(call.val.type, p).Col)] = ValueAt(TheRecord, p)

\* A filter whose fields are all zero under SkipZeroValues gives no predicate.
C7_Witness ==
    /\ call.op = "WhereEq" /\ IsRecord(call.val) /\ ~ret.panic
    /\ call.val.type = "Condition" /\ call.o.SkipZeroValues /\ call.o.Columns = {}
    /\ Allowed(call.val.type, call.o) # {}
    /\ ret.nil

(***************************************************************************)
(* C8: a nil record value (untyped nil or nil pointer to a record) given   *)
(* to Insert, Update or Select is a no-op: the input builder comes back    *)
(* unchanged and the call does not panic.                                  *)
(***************************************************************************)
C8_NilIsNoOp ==
    (call.op \in { "Insert", "Update", "Select" } /\ call.val.form \in { "nil", "nilptr" }) =>
        ~ret.panic /\ ret.q = call.q

(***************************************************************************)
(* C9 as stated: the fields of an embedded struct are columns of the       *)
(* parent, placed where the embedded member is declared (declaration       *)
(* order after flattening, i.e. position paths in lexicographic order).    *)
(***************************************************************************)
LexLess(p, q) ==
    \E k \in 1..Len(p) :
        /\ k <= Len(q)
        /\ \A j \in 1..(k - 1) : p[j] = q[j]
        /\ p[k] < q[k]

\* Select on a slice with no allow-list lists every column of the type.
ShapeListed ==
    /\ call.op = "Select" /\ ~ret.panic /\ IsSlice(call.val) /\ call.o.Columns = {}
    /\ ColumnTagged(call.val.type)

EmbeddedColumns(t) == { p \in ColumnPaths(t) : Len(p) > 1 }

C9_DeclarationOrder ==
    ShapeListed =>
        /\ \A p \in EmbeddedColumns(call.val.type) : Emits(p)
        /\ \A i, j \in 1..Len(ret.q.columns) :
             i < j => LexLess(PathOfColumn(call.val.type, call.o, ret.q.columns[i]),
                              PathOfColumn(call.val.type, call.o, ret.q.columns[j]))

(***************************************************************************)
(* C9 amended: the fields of an embedded struct are columns of the parent, *)
(* listed level by level: first the fields declared in the record itself,  *)
(* then those of the structs embedded in it, then those embedded one level *)
(* deeper; within a level in declaration order.                            *)
(***************************************************************************)
C9_LevelOrder ==
    ShapeListed =>
        /\ \A p \in EmbeddedColumns(call.val.type) : Emits(p)
        /\ \A i, j \in 1..Len(ret.q.columns) :
             i < j => ShortLexLess(PathOfColumn(call.val.type, call.o, ret.q.columns[i]),
                                   PathOfColumn(call.val.type, call.o, ret.q.columns[j]))

C9_Witness ==
    /\ ShapeListed /\ call.val.type = "Sample" /\ call.o.PrepareColumn.fn = "nil"
    /\ ret.q.columns = << "a", "meta", "e", "b", "c" >>

(***************************************************************************)
(* C10: a named struct field with a column tag is one opaque column: the   *)
(* column set of the parent has that column and none of the fields nested  *)
(* in it at any depth, while fields reached through anonymous embeddings   *)
(* only are columns.                                                       *)
(***************************************************************************)
NamedStructColumns(t) ==
    { p \in ColumnPaths(t) : FieldDecl(t, p).Kind = "struct" }

\* Tagged fields below a named struct field.
NestedInNamed(t) ==
    { p \in AllPaths(t) : FieldDecl(t, p).Tag = "db" /\ ~OnlyEmbeddedAbove(t, p) }

CachedColumns(t) ==
    { types[t][i].Index :
        i \in { k \in 1..Len(types[t]) : ~types[t][k].Embedded /\ types[t][k].Tag # "" } }

C10_NamedStructOpaque ==
    /\ \A t \in DOMAIN types :
         /\ NamedStructColumns(t) \subseteq CachedColumns(t)
         /\ CachedColumns(t) \cap NestedInNamed(t) = {}
         /\ EmbeddedColumns(t) \subseteq CachedColumns(t)
    /\ ShapeListed =>
         /\ Len(ret.q.columns) = Cardinality(ColumnPaths(call.val.type))
         /\ \A p \in ColumnPaths(call.val.type) : Emits(p)

C10_Witness ==
    /\ ShapeListed /\ call.val.type = "Sample" /\ call.o.PrepareColumn.fn = "nil"
    /\ "meta" \in Range(ret.q.columns)
    /\ "d" \notin Range(ret.q.columns)
    /\ NestedInNamed("Sample") # {}
    /\ "Sample" \in DOMAIN types

(***************************************************************************)
(* C11: column eligibility.  When nothing is left out for its value or by  *)
(* an allow-list (Select of a record or slice, Insert / Update / WhereEq   *)
(* of a record with IgnoreOmitEmpty and without SkipZeroValues, all with   *)
(* an empty Columns list), a leaf field is emitted iff it has the column   *)
(* tag and only anonymous embeddings above it; a field without the column  *)
(* tag, with no tag or with other tags only, gives no column.              *)
(***************************************************************************)
ColumnOps == { "Insert", "Update", "Select", "WhereEq" }

Leaves(t) == { p \in AllPaths(t) : FieldDecl(t, p).Kind # "struct" }

\* The call lists every eligible column of the type of its argument.
FullListing ==
    /\ call.op \in ColumnOps /\ ~ret.panic /\ call.o.Columns = {}
    /\ \/ call.op = "Select" /\ (IsRecord(call.val) \/ IsSlice(call.val)) /\ ~call.o.SkipZeroValues
       \/ call.op # "Select" /\ IsRecord(call.val)
            /\ call.o.IgnoreOmitEmpty /\ ~call.o.SkipZeroValues

C11_ColumnEligibility ==
    FullListing =>
        /\ \A p \in Leaves(call.val.type) \cap ColumnPaths(call.val.type) : Emits(p)
        /\ \A c \in EmittedSet :
             \E p \in ColumnPaths(call.val.type) : c = Quoted(call.o, FieldDecl(call.val.type, p).Col)

(***************************************************************************)
(* C12: insert-conflict policy.  Every Insert of a record or of a slice of *)
(* records with the InsertIgnore option gets IGNORE under MySQL, OR IGNORE *)
(* under SQLite3, the suffix ON CONFLICT DO NOTHING under Postgres, and    *)
(* panics under the unknown or an unrecognized dialect.                    *)
(***************************************************************************)
InsertIgnoreAsked ==
    /\ call.op = "Insert" /\ call.o.InsertIgnore
    /\ IsRecord(call.val) \/ IsSlice(call.val)

C12_InsertConflictPolicy ==
    InsertIgnoreAsked =>
        CASE Dialect = DialectMySQL -> ~ret.panic /\ ret.q.options = << "IGNORE" >>
          [] Dialect = DialectSQLite3 -> ~ret.panic /\ ret.q.options = << "OR IGNORE" >>
          [] Dialect = DialectPostgres ->
                ~ret.panic /\ ret.q.suffixes = << "ON CONFLICT DO NOTHING" >>
          [] OTHER -> ret.panic

(***************************************************************************)
(* Referencer claims.  A lookup is judged against what the caller did: the *)
(* aliases it added the row of the looked-up pointer under.                *)
(***************************************************************************)
RowOf(ptr) == Ptr(ptr.obj, << >>)
IsRowPtr(a) == a.kind = "ptr" /\ a.idx = << >>
IsFieldPtr(a) == a.kind = "ptr" /\ a.idx # << >>
IsAdded(ptr) == RowOf(ptr) \in DOMAIN registered
LastAlias(ptr) == registered[RowOf(ptr)].last
column(ptr) == FieldDecl(TypeOf(ptr.obj), ptr.idx).Col
Looked(op) == rcall.op = op

(***************************************************************************)
(* C13: AddTableAlias(p, alias) registers references by alias.  After the  *)
(* row p was added last under a non-empty alias, Ref(p) is Q(alias) and    *)
(* Ref(&p.f) is Q(alias, column(f)); after it was added last under the     *)
(* empty alias Ref(&p.f) is the bare Q(column(f)); Ref(p) and Col(p) panic *)
(* for a row added under the empty alias only; Col(&p.f) is the unquoted   *)
(* column name in both cases.                                              *)
(***************************************************************************)
C13_AddTableAliasRegisters ==
    /\ (Looked("Ref") /\ IsRowPtr(rcall.arg) /\ IsAdded(rcall.arg)
            /\ LastAlias(rcall.arg) # "") =>
          rret = RString(Q(<< LastAlias(rcall.arg) >>))
    /\ (Looked("Ref") /\ IsFieldPtr(rcall.arg) /\ IsAdded(rcall.arg)) =>
          rret = RString(IF LastAlias(rcall.arg) # ""
                         THEN Q(<< LastAlias(rcall.arg), column(rcall.arg) >>)
                         ELSE Q(<< column(rcall.arg) >>))
    /\ (rcall.op \in { "Ref", "Col" } /\ IsRowPtr(rcall.arg) /\ IsAdded(rcall.arg)
            /\ registered[rcall.arg].all = { "" }) =>
          rret.panic
    /\ (Looked("Col") /\ IsFieldPtr(rcall.arg) /\ IsAdded(rcall.arg)) =>
          rret = RString(column(rcall.arg))

\* Ref(&employee.FirstName) after AddTableAlias(employee, "") under QuoteANSI.
C13_Witness ==
    /\ Looked("Ref") /\ rcall.arg = Ptr("employee", << 2 >>)
    /\ IsAdded(rcall.arg) /\ LastAlias(rcall.arg) = ""
    /\ IdentifierQuoter = "QuoteANSI"
    /\ rret = RString("\"first_name\"")

(***************************************************************************)
(* C14: lookups go by pointer identity.  With two distinct rows of one     *)
(* type added under different non-empty aliases, in either order, a field  *)
(* pointer resolves to the reference qualified by the alias of its own     *)
(* row and not to the one of the other row; Ref, Col and Cols on a pointer *)
(* to a row that was never added, or to a field of such a row, panic.      *)
(***************************************************************************)
OtherRow(ptr) == CHOOSE p \in RowPtrs : p # RowOf(ptr)

BothAdded(ptr) ==
    /\ IsAdded(ptr) /\ OtherRow(ptr) \in DOMAIN registered
    /\ LastAlias(ptr) # "" /\ LastAlias(OtherRow(ptr)) # ""
    /\ LastAlias(ptr) # LastAlias(OtherRow(ptr))

C14_PointerIdentity ==
    /\ (Looked("Ref") /\ IsFieldPtr(rcall.arg) /\ BothAdded(rcall.arg)) =>
          /\ rret = RString(Q(<< LastAlias(rcall.arg), column(rcall.arg) >>))
          /\ rret.s # Q(<< LastAlias(OtherRow(rcall.arg)), column(rcall.arg) >>)
    /\ (rcall.op \in { "Ref", "Col", "Cols" } /\ rcall.arg.kind = "ptr" /\ ~IsAdded(rcall.arg)) =>
          rret.panic

\* Ref(&employee.LastName) with both rows added, as in TestReferencer_Fmt.
C14_Witness ==
    /\ Looked("Ref") /\ rcall.arg = Ptr("employee", << 3 >>) /\ BothAdded(rcall.arg)
    /\ LastAlias(rcall.arg) = "employee"
    /\ IdentifierQuoter = "nil"
    /\ rret = RString("employee.last_name")

(***************************************************************************)
(* C15: re-registration overwrites.  After a row was added under an alias  *)
(* a and then under a different alias b (b may be empty), Ref(p),          *)
(* Ref(&p.f), Cols(p) and ColumnsOf(p) reflect b only: with b non-empty    *)
(* they give Q(b), Q(b, column), the references under b, and the table     *)
(* Q(b); with b empty the field references are bare and no lookup for p    *)
(* resolves to an alias the row had before.                                *)
(***************************************************************************)
ReAdded(ptr) == IsAdded(ptr) /\ Cardinality(registered[RowOf(ptr)].all) > 1

OldAliases(ptr) == { Q(<< a >>) : a \in registered[RowOf(ptr)].all \ { LastAlias(ptr), "" } }

RefsUnder(alias) ==
    [i \in 1..Len(Alphabetical) |->
        IF alias = "" THEN Q(<< Alphabetical[i] >>) ELSE Q(<< alias, Alphabetical[i] >>)]

C15_LastRegistrationWins ==
    (rcall.arg.kind = "ptr" /\ ReAdded(rcall.arg)) =>
        /\ (Looked("Ref") /\ IsRowPtr(rcall.arg)) =>
              IF LastAlias(rcall.arg) # ""
              THEN rret = RString(Q(<< LastAlias(rcall.arg) >>))
              ELSE rret.panic \/ rret.s \notin OldAliases(rcall.arg)
        /\ (Looked("Ref") /\ IsFieldPtr(rcall.arg)) =>
              rret = RString(IF LastAlias(rcall.arg) # ""
                             THEN Q(<< LastAlias(rcall.arg), column(rcall.arg) >>)
                             ELSE Q(<< column(rcall.arg) >>))
        /\ (Looked("Cols") /\ IsRowPtr(rcall.arg)) =>
              rret = RList(RefsUnder(LastAlias(rcall.arg)))
        /\ (Looked("ColumnsOf") /\ IsRowPtr(rcall.arg)) =>
              IF LastAlias(rcall.arg) # ""
              THEN ~rret.panic /\ rret.o.PrepareColumn.table = Q(<< LastAlias(rcall.arg) >>)
              ELSE rret.panic \/ rret.o.PrepareColumn.table \notin OldAliases(rcall.arg)

(***************************************************************************)
(* C16: Fmt is permissive.  When every argument after the format is a      *)
(* pointer that was registered, a Quoted string or a raw literal value,    *)
(* Fmt does not panic and hands the formatter the resolved reference for   *)
(* a registered pointer and the literal itself for a raw literal.          *)
(***************************************************************************)
Resolvable(a) == a.kind = "ptr" /\ IsAdded(a) /\ (IsFieldPtr(a) \/ LastAlias(a) # "")

Formatted(a) ==
    CASE a.kind = "ptr" /\ IsRowPtr(a) -> Q(<< LastAlias(a) >>)
      [] a.kind = "ptr" /\ IsFieldPtr(a) ->
            IF LastAlias(a) # "" THEN Q(<< LastAlias(a), column(a) >>) ELSE Q(<< column(a) >>)
      [] OTHER -> a.s

C16_FmtPermissive ==
    (Looked("Fmt")
        /\ \A i \in 1..Len(rcall.args) :
              Resolvable(rcall.args[i]) \/ rcall.args[i].kind \in { "Quoted", "literal" }) =>
        /\ ~rret.panic
        /\ rret.list = [i \in 1..Len(rcall.args) |-> Formatted(rcall.args[i])]

(***************************************************************************)
(* C17: ColumnsOf qualifies columns.  For a row pointer that was added     *)
(* with AddTableAlias, for a plain alias string and for a Quoted table     *)
(* reference, ColumnsOf returns an option under which the Mapper prepares  *)
(* every column name as the table reference, a dot and the quoted column   *)
(* name; it panics for a pointer only if the pointer was never registered. *)
(***************************************************************************)
Qualifies(o, table) ==
    \A i \in 1..Len(User) : PrepareColumn(o, User[i].Col) = table \o "." \o Q(<< User[i].Col >>)

C17_ColumnsOfQualifies ==
    Looked("ColumnsOf") =>
        /\ (IsRowPtr(rcall.arg) /\ IsAdded(rcall.arg)) =>
              ~rret.panic /\ Qualifies(rret.o, Q(<< LastAlias(rcall.arg) >>))
        /\ rcall.arg.kind = "string" =>
              ~rret.panic /\ Qualifies(rret.o, Q(<< rcall.arg.s >>))
        /\ rcall.arg.kind = "Quoted" =>
              ~rret.panic /\ Qualifies(rret.o, rcall.arg.s)
        /\ (rcall.arg.kind = "ptr" /\ rret.panic) => ~IsAdded(rcall.arg)

(***************************************************************************)
(* C18: the no-table escape.  For a field pointer of a row added under a   *)
(* non-empty alias, Ref(NoTable(ptr)) and Fmt with NoTable(ptr) give the   *)
(* quoted column name Q(column) without the table, while Ref(ptr) still    *)
(* gives Q(alias, column); NoTable of a pointer that was never registered  *)
(* panics in Ref and in Fmt.                                               *)
(***************************************************************************)
Aliased(a) == IsFieldPtr(a) /\ IsAdded(a) /\ LastAlias(a) # ""

Escaped(a) == a.kind = "NoTable:ptr" /\ Aliased(Unwrap(a))

Unregistered(a) == a.kind = "NoTable:ptr" /\ ~IsAdded(Unwrap(a))

C18_NoTableEscape ==
    /\ (Looked("Ref") /\ Escaped(rcall.arg)) =>
          rret = RString(Q(<< column(Unwrap(rcall.arg)) >>))
    /\ (Looked("Ref") /\ rcall.arg.kind = "ptr" /\ Aliased(rcall.arg)) =>
          rret = RString(Q(<< LastAlias(rcall.arg), column(rcall.arg) >>))
    /\ (Looked("Fmt")
          /\ \A i \in 1..Len(rcall.args) :
                \/ Escaped(rcall.args[i])
                \/ Resolvable(rcall.args[i])
                \/ rcall.args[i].kind = "Quoted") =>
          /\ ~rret.panic
          /\ \A i \in 1..Len(rcall.args) :
                Escaped(rcall.args[i]) => rret.list[i] = Q(<< column(Unwrap(rcall.args[i])) >>)
    /\ (Looked("Ref") /\ Unregistered(rcall.arg)) => rret.panic
    /\ (Looked("Fmt") /\ \E i \in 1..Len(rcall.args) : Unregistered(rcall.args[i])) => rret.panic

\* Fmt("%s AS %s", &manager.ID, NoTable(&manager.LastName)) under QuoteANSI
\* with manager added as "manager".
C18_Witness ==
    /\ Looked("Fmt")
    /\ rcall.args = << Ptr("manager", << 1 >>), NoTable(Ptr("manager", << 3 >>)) >>
    /\ IsAdded(Ptr("manager", << >>)) /\ LastAlias(Ptr("manager", << >>)) = "manager"
    /\ IdentifierQuoter = "QuoteANSI"
    /\ rret.list = << "\"manager\".\"id\"", "\"last_name\"" >>

(***************************************************************************)
(* Storage claims: the steps in which an InTx call starts and returns.     *)
(***************************************************************************)
Top(frames) == frames[Len(frames)]
Enters == Len(stack') = Len(stack) + 1
Returns == Len(stack') = Len(stack) - 1
BeginFails == stack' = stack /\ ctx' = ctx /\ db' # db
Asks(op, tx) == Len(db') = Len(db) + 1 /\ db'[Len(db')].op = op /\ db'[Len(db')].tx = tx

(***************************************************************************)
(* C19: transaction nesting.  An InTx called with a context that carries   *)
(* a transaction begins no transaction and calls fn once with the same     *)
(* transaction in the context; when fn returns, with or without an error,  *)
(* it asks the database for neither commit nor rollback and returns the    *)
(* error of fn unchanged.                                                  *)
(***************************************************************************)
C19_NestedInTxReusesTx ==
    [][ /\ (Enters /\ Top(stack').ctxTx # NoTx) =>
              db' = db /\ Top(stack').tx = Top(stack').ctxTx
        /\ (Returns /\ Top(stack).ctxTx # NoTx) =>
              /\ db' = db
              /\ last'.calls = 1 /\ last'.begins = 0 /\ last'.tx = Top(stack).ctxTx
              /\ last'.fn \in { "nil", "error" } => last'.err = last'.fnErr ]_vars

\* As in TestStorage_InTx_ReuseTx, with fn returning an error: one begin, by
\* the caller, and nothing else asked of the database.
C19_Witness ==
    /\ stack = << >> /\ ctx # NoTx
    /\ last.ctxTx = ctx /\ last.fn = "error" /\ last.err = NewError("error")
    /\ db = << DbCall("begin", 1, TRUE) >>

(***************************************************************************)
(* C20: transaction protocol without a transaction in the context.  InTx   *)
(* begins one transaction; when the begin fails it returns the error       *)
(* wrapped as "failed to begin tx" and fn is not called; otherwise fn is   *)
(* called once and, when it returns, the transaction is finalized once:    *)
(* commit and no rollback after nil, rollback and no commit after an       *)
(* error, and with the rollback succeeding the error of fn is returned.    *)
(***************************************************************************)
C20_InTxProtocol ==
    [][ /\ (Enters /\ Top(stack').ctxTx = NoTx) =>
              db' = Append(db, DbCall("begin", Top(stack').tx, TRUE))
        /\ BeginFails =>
              /\ db' = Append(db, DbCall("begin", NewTx, FALSE))
              /\ last'.calls = 0
              /\ last'.err = WrapError(DbError("begin"), "failed to begin tx", << >>)
              /\ ErrorString(last'.err) = "failed to begin tx: begin error"
        /\ (Returns /\ Top(stack).ctxTx = NoTx) =>
              /\ last'.calls = 1 /\ last'.begins = 1
              /\ last'.fn = "nil" => Asks("commit", Top(stack).tx)
              /\ last'.fn = "error" =>
                    /\ Asks("rollback", Top(stack).tx)
                    /\ db'[Len(db')].ok => last'.err = last'.fnErr ]_vars

\* As in TestStorage_InTx_RollbackOnError.
C20_Witness ==
    /\ stack = << >> /\ ctx = NoTx
    /\ last.ctxTx = NoTx /\ last.fn = "error" /\ last.err = NewError("error")
    /\ last.rollbacks = 1 /\ last.commits = 0
    /\ db = << DbCall("begin", 1, TRUE), DbCall("rollback", 1, TRUE) >>

(***************************************************************************)
(* C21: double failure.  When fn returned an error and the rollback of the *)
(* transaction InTx began failed too, the error InTx returns is (C21 as    *)
(* stated) the error of fn, with the rollback failure embedded in its      *)
(* detail; (as amended) the rollback failure wrapped as "failed to         *)
(* rollback", with the error of fn embedded in its detail under the key    *)
(* "error" and not in its chain.                                           *)
(***************************************************************************)
DoubleFailure ==
    /\ last.ctxTx = NoTx /\ last.fn = "error"
    /\ last.rollbacks = 1 /\ ~last.finalized

\* x is the value of one of the key-value pairs of err.
HasDetail(err, x) ==
    \E i \in 1..Len(err.fields) : i % 2 = 0 /\ err.fields[i] = x

C21_OriginalErrorPropagated ==
    DoubleFailure =>
        /\ Is(last.err, last.fnErr)
        /\ HasDetail(last.err, DbError("rollback"))

C21_RollbackErrorCarriesOriginal ==
    DoubleFailure =>
        /\ last.err = WrapError(DbError("rollback"), "failed to rollback", << "error", last.fnErr >>)
        /\ ErrorString(last.err) = "failed to rollback: rollback error"
        /\ ~Is(last.err, last.fnErr)
        /\ HasDetail(last.err, last.fnErr)

\* As in TestStorage_InTx_ErrorOnRollback.
C21_Witness ==
    /\ DoubleFailure /\ stack = << >>
    /\ last.fnErr = NewError("error")
    /\ db = << DbCall("begin", 1, TRUE), DbCall("rollback", 1, FALSE) >>

(***************************************************************************)
(* C29: a transaction begun by InTx is committed only if fn returned nil.  *)
(* When fn returned an error or panicked, the InTx that began the          *)
(* transaction asks the database for no commit.                            *)
(***************************************************************************)
C29_CommitOnlyAfterNil ==
    (last.ctxTx = NoTx /\ last.fn \in { "error", "panic" }) => last.commits = 0

(***************************************************************************)
(* C28: the registry is never pruned.  In every step of the Referencer     *)
(* that changes one of its maps, a pointer for which Ref, Col, Cols or Ref *)
(* of NoTable succeeds before the step succeeds after it: the set of       *)
(* resolvable pointers only grows.                                         *)
(***************************************************************************)
Succeeds(p) ==
    [Ref |-> ~Ref(p).panic, Col |-> ~Col(p).panic, Cols |-> ~Cols(p).panic]

C28_NeverPruned ==
    [][ <<refs, quotedCols, columnNames, structRefs>>' # <<refs, quotedCols, columnNames, structRefs>> =>
          \A p \in LookupArgs :
              /\ Succeeds(p).Ref => Succeeds(p)'.Ref
              /\ Succeeds(p).Col => Succeeds(p)'.Col
              /\ Succeeds(p).Cols => Succeeds(p)'.Cols ]_vars

\* The row pointer still resolves after the row was added again under the
\* empty alias.
C28_Witness ==
    /\ Looked("Ref") /\ rcall.arg = Ptr("manager", << >>)
    /\ IsAdded(rcall.arg) /\ LastAlias(rcall.arg) = ""
    /\ "manager" \in registered[rcall.arg].all
    /\ ~rret.panic

(***************************************************************************)
(* C22: error observation.  With the OnError hook set, an operation of     *)
(* Storage that returns a non-nil error from begin, commit, rollback,      *)
(* statement building or statement execution hands exactly that error to   *)
(* the hook once; an error that is the "no rows" sentinel is not handed to *)
(* the hook and is still returned; an error of fn, and nil, are not handed *)
(* to the hook by InTx.  The returned error is what the failing phase      *)
(* produced, whatever the hook is.                                         *)
(***************************************************************************)
Hooked(err) ==
    IF OnError /\ err # NilErr /\ ~Is(err, ErrNoRows) THEN << err >> ELSE << >>

Executed == ran.events[IF ran.events[1].ev = "Trace" THEN 2 ELSE 1]

InTxReturned == last # NoInTx

\* The error the database gave to the InTx that returned last, wrapped.
InTxDbError ==
    CASE last.calls = 0 -> WrapError(DbError("begin"), "failed to begin tx", << >>)
      [] last.commits = 1 /\ ~last.finalized ->
            WrapError(DbError("commit"), "failed to commit", << >>)
      [] last.rollbacks = 1 /\ ~last.finalized ->
            WrapError(DbError("rollback"), "failed to rollback", << "error", last.fnErr >>)
      [] OTHER -> NilErr

C22_ErrorObservation ==
    /\ ran.op # "none" =>
          /\ ran.err = IF ran.built THEN Executed.err
                       ELSE WrapError(ran.qb.err, "failed to build query", << >>)
          /\ observed = Hooked(ran.err)
    /\ InTxReturned =>
          /\ InTxDbError # NilErr => last.err = InTxDbError
          /\ observed = Hooked(InTxDbError)

\* A single-row Select that found no rows, with the hook set.
C22_Witness ==
    /\ ran.op = "Select" /\ OnError /\ ran.built
    /\ Executed.ev = "GetContext" /\ Executed.err = ErrNoRows
    /\ ran.err = ErrNoRows /\ observed = << >>

(***************************************************************************)
(* C27: trace ordering.  With the Trace hook set, an Exec, Query or Select *)
(* whose statement was built calls Trace once, with the statement text and *)
(* arguments ToSql rendered, before the executor, and calls the completion *)
(* callback once, after the executor, with the error (or nil) it returns   *)
(* to the caller; when building the statement failed Trace is not called.  *)
(***************************************************************************)
ExecutorMethods == { "ExecContext", "QueryxContext", "SelectContext", "GetContext" }

C27_TraceOrdering ==
    (ran.op # "none" /\ Trace) =>
        IF ran.built
        THEN /\ Len(ran.events) = 3
             /\ ran.events[1].ev = "Trace"
             /\ ran.events[1].query = ran.qb.query /\ ran.events[1].args = ran.qb.args
             /\ ran.events[2].ev \in ExecutorMethods
             /\ ran.events[3].ev = "def" /\ ran.events[3].err = ran.err
        ELSE \A i \in 1..Len(ran.events) : ran.events[i].ev \notin { "Trace", "def" }

\* As in TestStorage_ExecContext, with the statement failing.
C27_Witness ==
    /\ ran.op = "Exec" /\ Trace /\ ran.built
    /\ ran.err = DbError("exec")
    /\ ran.events[1].ev = "Trace" /\ ran.events[2].ev = "ExecContext"
    /\ ran.events[3] = Event("def", "", "", << >>, DbError("exec"))

(***************************************************************************)
(* Reading a quoted text back under a dialect's escaping convention: parts *)
(* separated by '.', every part between two quote characters, a doubled    *)
(* quote character inside a part standing for one.                         *)
(***************************************************************************)
Malformed == << << -1 >> >>

RECURSIVE ReadPart(_, _, _, _)
ReadPart(text, i, quote, part) ==
    IF i > Len(text) THEN Malformed
    ELSE IF text[i] # quote THEN ReadPart(text, i + 1, quote, Append(part, text[i]))
    ELSE IF i = Len(text) THEN << part >>
    ELSE IF text[i + 1] = quote THEN ReadPart(text, i + 2, quote, Append(part, quote))
    ELSE IF text[i + 1] # Dot \/ i + 2 > Len(text) THEN Malformed
    ELSE IF text[i + 2] # quote THEN Malformed
    ELSE LET more == ReadPart(text, i + 3, quote, << >>) IN
         IF more = Malformed THEN Malformed ELSE << part >> \o more

ReadParts(text, quote) ==
    IF text = << >> THEN << >>
    ELSE IF text[1] # quote THEN Malformed
    ELSE ReadPart(text, 2, quote, << >>)

(***************************************************************************)
(* C24: quoting is invertible.  The text QuoteANSI or QuoteBackticks       *)
(* returns, read back under the escaping convention of the same dialect,   *)
(* is the list of parts that was quoted, also for parts that contain the   *)
(* quote character or a dot; no parts give the empty text.                 *)
(***************************************************************************)
QuoteOf(fn) == IF fn \in { "QuoteANSI", "QuoteRequiredANSI" } THEN DoubleQuote ELSE Backtick

C24_QuotingInvertible ==
    qcall.fn \in { "QuoteANSI", "QuoteBackticks" } =>
        /\ ReadParts(qret, QuoteOf(qcall.fn)) = qcall.tableAndColumn
        /\ qcall.tableAndColumn = << >> => qret = << >>

\* QuoteANSI of the parts `".` and `."` gives `"""."."."""`.
C24_Witness ==
    /\ qcall = QCall("QuoteANSI", << << DoubleQuote, Dot >>, << Dot, DoubleQuote >> >>)
    /\ qret = << DoubleQuote, DoubleQuote, DoubleQuote, Dot, DoubleQuote, Dot,
                 DoubleQuote, Dot, DoubleQuote, DoubleQuote, DoubleQuote >>

(***************************************************************************)
(* C25: conditional quoting.  QuoteRequiredBackticks and QuoteRequiredANSI *)
(* leave a part as it is iff it has only ASCII letters, digits, '$', '_'   *)
(* and runes of U+0080..U+FFFF and is not made of digits only; any other   *)
(* part is quoted as QuoteBackticks, QuoteANSI quotes it; the parts are    *)
(* joined by '.'.                                                          *)
(***************************************************************************)
IsDigit(r) == r >= 48 /\ r <= 57

IsIdentifierRune(r) ==
    \/ IsDigit(r)
    \/ r \in 65..90 \/ r \in 97..122
    \/ r \in { 36, 95 }
    \/ r \in 128..65535

StaysUnquoted(part) ==
    /\ \A k \in 1..Len(part) : IsIdentifierRune(part[k])
    /\ ~ \A k \in 1..Len(part) : IsDigit(part[k])

RECURSIVE JoinedByDot(_)
JoinedByDot(texts) ==
    IF texts = << >> THEN << >>
    ELSE IF Len(texts) = 1 THEN texts[1]
    ELSE texts[1] \o << Dot >> \o JoinedByDot(Tail(texts))

QuotedWhereRequired(tableAndColumn, fn) ==
    JoinedByDot([i \in 1..Len(tableAndColumn) |->
        IF StaysUnquoted(tableAndColumn[i]) THEN tableAndColumn[i]
        ELSE IF fn = "QuoteRequiredANSI" THEN QuoteANSIParts(<< tableAndColumn[i] >>)
        ELSE QuoteBackticksParts(<< tableAndColumn[i] >>)])

RuneAt(s, i) == IF i <= Len(s) THEN s[i] ELSE 0

\* mode: 0 in code, a quote character inside a literal, Dash inside a line
\* comment, Asterisk inside a block comment; i is a position from 1.
RECURSIVE SeparatorsFrom(_, _, _)
SeparatorsFrom(s, i, mode) ==
    IF i > Len(s) THEN {}
    ELSE IF mode = 0
    THEN IF s[i] \in quoteChars THEN SeparatorsFrom(s, i + 1, s[i])
         ELSE IF s[i] = Dash /\ RuneAt(s, i + 1) = Dash THEN SeparatorsFrom(s, i + 2, Dash)
         ELSE IF s[i] = Slash /\ RuneAt(s, i + 1) = Asterisk THEN SeparatorsFrom(s, i + 2, Asterisk)
         ELSE IF s[i] = Semicolon THEN { i } \cup SeparatorsFrom(s, i + 1, 0)
         ELSE SeparatorsFrom(s, i + 1, 0)
    ELSE IF mode = Dash
    THEN SeparatorsFrom(s, i + 1, IF s[i] = Newline THEN 0 ELSE Dash)
    ELSE IF mode = Asterisk
    THEN IF s[i] = Asterisk /\ RuneAt(s, i + 1) = Slash THEN SeparatorsFrom(s, i + 2, 0)
         ELSE SeparatorsFrom(s, i + 1, Asterisk)
    ELSE IF s[i] # mode THEN SeparatorsFrom(s, i + 1, mode)
    ELSE IF RuneAt(s, i + 1) = mode THEN SeparatorsFrom(s, i + 2, mode)
    ELSE SeparatorsFrom(s, i + 1, 0)

Separators(s) == SeparatorsFrom(s, 1, 0)

\* The statements of s cut at the positions seps, from position from on.
RECURSIVE CutAt(_, _, _)
CutAt(s, seps, from) ==
    IF \E i \in seps : i >= from
    THEN LET i == CHOOSE k \in seps : k >= from /\ \A j \in seps : j >= from => k <= j
         IN  Appended(<< >>, SubSeq(s, from, i - 1)) \o CutAt(s, seps, i + 1)
    ELSE Appended(<< >>, SubSeq(s, from, Len(s)))

(***************************************************************************)
(* C26: SplitStatements cuts a script at the semicolons outside literals   *)
(* and comments and at no other place: what it returns is the script cut   *)
(* at its separators.                                                      *)
(***************************************************************************)
C26_SplitsOutsideLiteralsAndComments ==
    statements = CutAt(script, Separators(script), 1)

\* The same for scripts with no quote character and no comment mark.
C26_PlainScripts ==
    (\A i \in 1..Len(script) : script[i] \in { Semicolon, Space, Newline, 97 }) =>
        statements = CutAt(script, Separators(script), 1)

(***************************************************************************)
(* C23: the type-metadata cache under concurrency.  No goroutine reads or  *)
(* assigns the descriptor list of the record type while another goroutine  *)
(* assigns it, and every mapping call sees the fully filtered list.        *)
(***************************************************************************)
\* g is at a statement that reads tm.Index.
Reads(g) == goroutines[g].pc \in { "range", "use" }

\* g is in the assignment tm.Index = index.
Assigns(g) == goroutines[g].pc = "assigning"

Exclusive ==
    \A g \in Goroutines, h \in Goroutines :
        (g # h /\ Assigns(g)) => ~Reads(h) /\ ~Assigns(h)

SeesFiltered ==
    \A g \in Goroutines :
        goroutines[g].pc = "done" => goroutines[g].seen = filterIndex(TypeMap(T))

C23_TypeMapExclusive == goroutines # << >> => Exclusive /\ SeesFiltered

\* A Mapper no goroutine has called: all calls so far were on one Mapper.
OneMapper ==
    \E sm \in Mappers :
        /\ typesOf[sm] = NilStructMap
        /\ \A g \in Goroutines : goroutines[g].sm # sm

C23_OneMapper == (goroutines # << >> /\ OneMapper) => Exclusive /\ SeesFiltered

C23_OneMapperContended ==
    /\ goroutines # << >> /\ OneMapper
    /\ \E g \in Goroutines, h \in Goroutines :
         goroutines[g].pc = "assigning" /\ goroutines[h].pc = "Lock"

(***************************************************************************)
(* C30: promotion of a heterogeneous batch does not depend on the column   *)
(* name transform.  For an Insert of a slice whose elements give different *)
(* column sets while PrepareColumn is set, the statement lists the         *)
(* transform of every column some element gives, once, in declaration      *)
(* order, every row has one value per listed column, and the list is not   *)
(* empty when some element gives a column.                                 *)
(***************************************************************************)
\* The raw names of the columns element i gives under the call's options.
ColumnsGiven(i) ==
    { FieldDecl(call.val.type, p).Col :
        p \in { x \in Allowed(call.val.type, call.o) :
                  ~OmittedFor(call.val.items[i], call.val.type, call.o, x) } }

Heterogeneous ==
    \E i, j \in 1..Len(call.val.items) : ColumnsGiven(i) # ColumnsGiven(j)

Transformed == call.o.PrepareColumn.fn # "nil"

PromotedColumns ==
    /\ Range(ret.q.columns) = ObservedColumns
    /\ Len(ret.q.columns) = Cardinality(ObservedColumns)
    /\ ObservedColumns # {} => ret.q.columns # << >>
    /\ Len(ret.q.values) = Len(call.val.items)
    /\ \A i \in 1..Len(ret.q.values) : Len(ret.q.values[i]) = Len(ret.q.columns)

InDeclarationOrder ==
    \A i, j \in 1..Len(ret.q.columns) :
        i < j => LexLess(PathOfColumn(call.val.type, call.o, ret.q.columns[i]),
                         PathOfColumn(call.val.type, call.o, ret.q.columns[j]))

C30_PromotionUnderTransform ==
    (SliceInsertDone /\ Transformed /\ Heterogeneous) =>
        PromotedColumns /\ InDeclarationOrder

\* A later element gives a column no earlier element gave: the case in which
\* sliceInsert promotes the batch.
LaterElementAdds ==
    \E k \in 2..Len(call.val.items) :
        ColumnsGiven(k) \ UNION { ColumnsGiven(i) : i \in 1..(k - 1) } # {}

\* The same without a transform, for the batches sliceInsert promotes.
C30_PromotionUntransformed ==
    (SliceInsertDone /\ ~Transformed /\ LaterElementAdds) => PromotedColumns

C30_PromotionUntransformedReached ==
    /\ SliceInsertDone /\ ~Transformed /\ LaterElementAdds
    /\ call.val.type = "Sample" /\ Len(ret.q.columns) > 2
====
